---- MODULE Spec2Model ----
(***************************************************************************)
(* Model of the EarlyFit reporting and lead-synchronisation scripts:       *)
(*   - lead_sync/lead_sync_script.py  (sync_leads, main)                   *)
(*   - the mailers of dogfooding_mail.py, earlyfit_email_report.py and      *)
(*     leads_mail.py (send_report_email)                                    *)
(*   - normalize_phone_number and compute_progress_status (pure functions)  *)
(* Strings that the code inspects character by character (phone numbers)    *)
(* are sequences of one-character strings.                                  *)
(***************************************************************************)
EXTENDS Integers, Sequences, FiniteSets, TLC

VARIABLES
    \* ---- lead sync job (lead_sync_script.py) ----
    sl_pc,              \* position of main()/sync_leads()
    config_ok,          \* validate_config() finds both API keys
    stats,              \* the statistics dict of sync_leads
    records,            \* result['data'] of the new-signups query
    active_customer_records,    \* the phones of active_result['data']
    active_customer_phones,
    filtered_records,
    leads_to_ingest,
    idx,                \* loop index of the ingestion loop (1-based)
    queries,            \* analytics queries issued so far, in order
    posts,              \* CRM webhook POSTs so far: [lead, resp]
    stage_failed,       \* history: the stages that failed in this run
    exit_code,          \* sys.exit code, None while running
    \* ---- normalize_phone_number ----
    ph_pc, ph_in, ph_out, ph_out2,
    \* ---- compute_progress_status ----
    pg_pc, pg_sheet, pg_analytics, pg_status,
    \* ---- send_report_email of the three report scripts ----
    ml_pc,              \* position of send_report_email()
    ml_script,          \* which script runs: "dogfooding", "analytics", "leads"
    ml_queries,         \* outcome of each query issued so far, in order
    tables_data,        \* (heading index, number of rows) per successful query
    error_log,          \* leads_mail: error strings collected so far
    sheets_success,     \* leads_mail: outcome flag of the spreadsheet step
    sheet_appends,      \* leads_mail: the tables whose rows went into the spreadsheet
    smtp_log,           \* SMTP commands of the report session, in order
    failed_recipients,
    notifications,      \* leads_mail: error notifications attempted (their bodies)
    ml_result,          \* return value of send_report_email, None while running
    \* ---- query_analytics of the four API clients ----
    qa_pc, qa_client, qa_response, qa_result,
    \* ---- table rendering of the three report scripts ----
    tb_pc, tb_script, tb_data, tb_title, tb_formatting, tb_exclude, tb_out,
    \* ---- the report from the query results to the document ----
    rp_pc, rp_script, rp_sheet, rp_queried, rp_tables, rp_html, rp_result,
    \* ---- two overlapping invocations of sync_leads (run-indexed frames) ----
    ov_pc, ov_stats, ov_records, ov_filtered, ov_leads, ov_idx, ov_posts,
    \* ---- append_to_google_sheet (leads_mail.py) ----
    gs_sheet, gs_calls, gs_result

syncVars == <<sl_pc, config_ok, stats, records, active_customer_records,
              active_customer_phones, filtered_records, leads_to_ingest, idx, queries, posts,
              stage_failed, exit_code>>
phoneVars == <<ph_pc, ph_in, ph_out, ph_out2>>
progressVars == <<pg_pc, pg_sheet, pg_analytics, pg_status>>
mailVars == <<ml_pc, ml_script, ml_queries, tables_data, error_log, sheets_success,
              sheet_appends, smtp_log, failed_recipients, notifications, ml_result>>
queryVars == <<qa_pc, qa_client, qa_response, qa_result>>
tableVars == <<tb_pc, tb_script, tb_data, tb_title, tb_formatting, tb_exclude, tb_out>>
reportVars == <<rp_pc, rp_script, rp_sheet, rp_queried, rp_tables, rp_html, rp_result>>
overlapVars == <<ov_pc, ov_stats, ov_records, ov_filtered, ov_leads, ov_idx, ov_posts>>
sheetVars == <<gs_sheet, gs_calls, gs_result>>
vars == <<syncVars, phoneVars, progressVars, mailVars, queryVars, tableVars, reportVars, overlapVars, sheetVars>>
notSync == <<phoneVars, progressVars, mailVars, queryVars, tableVars, reportVars, overlapVars, sheetVars>>
notPhone == <<syncVars, progressVars, mailVars, queryVars, tableVars, reportVars, overlapVars, sheetVars>>
notProgress == <<syncVars, phoneVars, mailVars, queryVars, tableVars, reportVars, overlapVars, sheetVars>>
notMail == <<syncVars, phoneVars, progressVars, queryVars, tableVars, reportVars, overlapVars, sheetVars>>
notQuery == <<syncVars, phoneVars, progressVars, mailVars, tableVars, reportVars, overlapVars, sheetVars>>
notTable == <<syncVars, phoneVars, progressVars, mailVars, queryVars, reportVars, overlapVars, sheetVars>>
notReport == <<syncVars, phoneVars, progressVars, mailVars, queryVars, tableVars, overlapVars, sheetVars>>
notOverlap == <<syncVars, phoneVars, progressVars, mailVars, queryVars, tableVars, reportVars, sheetVars>>
notSheet == <<syncVars, phoneVars, progressVars, mailVars, queryVars, tableVars, reportVars, overlapVars>>

None == "None"

(***************************************************************************)
(* Bounds of the model.                                                    *)
(***************************************************************************)
MaxRecords == 2         \* rows returned by the new-signups query
MaxTokens == 3          \* pieces a phone input is put together from

(***************************************************************************)
(* Character-level helpers.                                                *)
(***************************************************************************)
Digits == {"0", "1", "2", "3", "4", "5", "6", "7", "8", "9"}

IsDigit(c) == c \in Digits

StartsWith(s, p) == Len(s) >= Len(p) /\ SubSeq(s, 1, Len(p)) = p

DropFirst(s, n) == SubSeq(s, n + 1, Len(s))

RECURSIVE LStrip(_)
LStrip(s) == IF s # <<>> /\ Head(s) = " " THEN LStrip(Tail(s)) ELSE s

RECURSIVE RStrip(_)
RStrip(s) == IF s # <<>> /\ s[Len(s)] = " " THEN RStrip(SubSeq(s, 1, Len(s) - 1)) ELSE s

\* str.strip()
Strip(s) == RStrip(LStrip(s))

\* ''.join(filter(str.isdigit, s))
KeepDigits(s) == SelectSeq(s, IsDigit)

\* s.replace(" ", "").replace("-", "").replace("(", "").replace(")", "")
RemoveSeparators(s) == SelectSeq(s, LAMBDA c : c \notin {" ", "-", "(", ")"})

RECURSIVE Concat(_)
Concat(ss) == IF ss = <<>> THEN <<>> ELSE Head(ss) \o Concat(Tail(ss))

(***************************************************************************)
(* normalize_phone_number (lead_sync_script.py 300-323).                   *)
(***************************************************************************)
PhoneLen == 10

\* Variant: the "91" prefix is dropped whatever the length.
RemoveCountryCodeAnyLength(phone) ==
    IF StartsWith(phone, <<"+", "9", "1">>) THEN DropFirst(phone, 3)
    ELSE IF StartsWith(phone, <<"9", "1">>) THEN DropFirst(phone, 2)
         ELSE phone

RemoveCountryCode(phone) ==
    IF StartsWith(phone, <<"+", "9", "1">>) THEN DropFirst(phone, 3)
    ELSE IF StartsWith(phone, <<"9", "1">>) /\ Len(phone) > PhoneLen
         THEN DropFirst(phone, 2)
         ELSE phone

LastDigits(phone) ==
    IF Len(phone) >= PhoneLen
    THEN SubSeq(phone, Len(phone) - PhoneLen + 1, Len(phone))
    ELSE phone

\* A missing (None) phone and the empty string are both falsy and take the
\* same branch everywhere the code reads a phone; both are the empty sequence.
normalize_phone_number(phone) ==
    IF phone = <<>> THEN <<>>
    ELSE LastDigits(KeepDigits(RemoveCountryCode(RemoveSeparators(Strip(phone)))))

(***************************************************************************)
(* Lead sync job: inputs the environment can produce.                      *)
(***************************************************************************)
Chars(str) ==
    CASE str = "9876543210"    -> <<"9","8","7","6","5","4","3","2","1","0">>
      [] str = "+919876543210" -> <<"+","9","1","9","8","7","6","5","4","3","2","1","0">>
      [] str = "98765 43210"   -> <<"9","8","7","6","5"," ","4","3","2","1","0">>
      [] str = "9123456789"    -> <<"9","1","2","3","4","5","6","7","8","9">>
      [] str = "12345"         -> <<"1","2","3","4","5">>
      [] str = "98765"         -> <<"9","8","7","6","5">>
      [] str = "43210"         -> <<"4","3","2","1","0">>
      [] str = "+91"           -> <<"+","9","1">>
      [] str = "91"            -> <<"9","1">>
      [] str = "1"             -> <<"1">>
      [] str = " "             -> <<" ">>
      [] str = "-"             -> <<"-">>
      [] str = "x"             -> <<"x">>
      [] str = "Asha"          -> <<"A","s","h","a">>
      [] str = "a@x.in"        -> <<"a","@","x",".","i","n">>
      [] str = "null"          -> <<"n","u","l","l">>
      [] str = "NULL"          -> <<"N","U","L","L">>
      [] str = "&amp;" -> <<"&","a","m","p",";">>
      [] str = "&lt;" -> <<"&","l","t",";">>
      [] str = "&gt;" -> <<"&","g","t",";">>
      [] str = "__" -> <<"_","_">>
      [] str = "O<Reilly> & Sons" ->
            <<"O","<","R","e","i","l","l","y",">"," ","&"," ","S","o","n","s">>
      [] str = "R&D" -> <<"R","&","D">>
      [] str = "<b>" -> <<"<","b",">">>
      [] str = "No" -> <<"N","o">>
      [] str = " no " -> <<" ","n","o"," ">>
      [] str = "Yes" -> <<"Y","e","s">>
      [] str = "Off Track" -> <<"O","f","f"," ","T","r","a","c","k">>
      [] str = "On Track" -> <<"O","n"," ","T","r","a","c","k">>
      [] str = "Data Incomplete" -> <<"D","a","t","a"," ","I","n","c","o","m","p","l","e","t","e">>
      [] str = "5" -> <<"5">>
      [] str = "3" -> <<"3">>
      [] str = "-2" -> <<"-","2">>
      [] str = "No data available" ->
            <<"N","o"," ","d","a","t","a"," ","a","v","a","i","l","a","b","l","e">>
      [] str = "No data available for " ->
            <<"N","o"," ","d","a","t","a"," ","a","v","a","i","l","a","b","l","e"," ","f","o","r",
              " ">>
      [] str = "Patient Name" -> <<"P","a","t","i","e","n","t"," ","N","a","m","e">>
      [] str = "User Onboarded" -> <<"U","s","e","r"," ","O","n","b","o","a","r","d","e","d">>
      [] str = "On/Off Track" -> <<"O","n","/","O","f","f"," ","T","r","a","c","k">>
      [] str = "OnTrack/OffTrack" ->
            <<"O","n","T","r","a","c","k","/","O","f","f","T","r","a","c","k">>
      [] str = "Days Since Last Interaction" ->
            <<"D","a","y","s"," ","S","i","n","c","e"," ","L","a","s","t"," ","I","n","t","e","r",
              "a","c","t","i","o","n">>
      [] str = "Current Weight Lose" ->
            <<"C","u","r","r","e","n","t"," ","W","e","i","g","h","t"," ","L","o","s","e">>
      [] str = "Consultant Name" -> <<"C","o","n","s","u","l","t","a","n","t"," ","N","a","m","e">>
      [] str = "Consultant ID" -> <<"C","o","n","s","u","l","t","a","n","t"," ","I","D">>
      [] str = "Subscription Name" ->
            <<"S","u","b","s","c","r","i","p","t","i","o","n"," ","N","a","m","e">>
      [] str = "__cell_classes__" ->
            <<"_","_","c","e","l","l","_","c","l","a","s","s","e","s","_","_">>
      [] str = "__row_class__" -> <<"_","_","r","o","w","_","c","l","a","s","s","_","_">>
      [] str = "Meal Log (3 days)" ->
            <<"M","e","a","l"," ","L","o","g"," ","(","3"," ","d","a","y","s",")">>
      [] str = "Weight Log (7 days)" ->
            <<"W","e","i","g","h","t"," ","L","o","g"," ","(","7"," ","d","a","y","s",")">>
      [] str = "Last Note" -> <<"L","a","s","t"," ","N","o","t","e">>
      [] str = "Goals Set" -> <<"G","o","a","l","s"," ","S","e","t">>
      [] str = "Smart Scale Logged" ->
            <<"S","m","a","r","t"," ","S","c","a","l","e"," ","L","o","g","g","e","d">>
      [] str = "Meal Logged" -> <<"M","e","a","l"," ","L","o","g","g","e","d">>
      [] str = "Interaction (5 Days)" ->
            <<"I","n","t","e","r","a","c","t","i","o","n"," ","(","5"," ","D","a","y","s",")">>
      [] str = "Weight Log(last 7 days )" ->
            <<"W","e","i","g","h","t"," ","L","o","g","(","l","a","s","t"," ","7"," ","d","a","y",
              "s"," ",")">>
      [] str = "Active Yesterday" ->
            <<"A","c","t","i","v","e"," ","Y","e","s","t","e","r","d","a","y">>
      [] str = "_cell_classes__" -> <<"_","c","e","l","l","_","c","l","a","s","s","e","s","_","_">>
      [] str = "None" -> <<"N","o","n","e">>
      [] str = "off track" -> <<"o","f","f"," ","t","r","a","c","k">>
      [] str = "no" -> <<"n","o">>
      [] str = "O&lt;Reilly&gt; &amp; Sons" ->
            <<"O","&","l","t",";","R","e","i","l","l","y","&","g","t",";"," ","&","a","m","p",";",
              " ","S","o","n","s">>
      [] str = "Summary Comparison" ->
            <<"S","u","m","m","a","r","y"," ","C","o","m","p","a","r","i","s","o","n">>
      [] str = "Coach +App User analytics" ->
            <<"C","o","a","c","h"," ","+","A","p","p"," ","U","s","e","r"," ","a","n","a","l","y",
              "t","i","c","s">>
      [] str = "GLP User analytics" ->
            <<"G","L","P"," ","U","s","e","r"," ","a","n","a","l","y","t","i","c","s">>
      [] str = "Full Analytics" -> <<"F","u","l","l"," ","A","n","a","l","y","t","i","c","s">>
      [] str = "Actions Required for " ->
            <<"A","c","t","i","o","n","s"," ","R","e","q","u","i","r","e","d"," ","f","o","r"," ">>
      [] str = "Unknown Consultant" ->
            <<"U","n","k","n","o","w","n"," ","C","o","n","s","u","l","t","a","n","t">>
      [] str = "Unknown" -> <<"U","n","k","n","o","w","n">>
      [] str = "Metric" -> <<"M","e","t","r","i","c">>
      [] str = "Num On Track Users" ->
            <<"N","u","m"," ","O","n"," ","T","r","a","c","k"," ","U","s","e","r","s">>
      [] str = "Num Off Track Users" ->
            <<"N","u","m"," ","O","f","f"," ","T","r","a","c","k"," ","U","s","e","r","s">>
      [] str = "Coach + App (vs Yesterday)" ->
            <<"C","o","a","c","h"," ","+"," ","A","p","p"," ","(","v","s"," ","Y","e","s","t","e",
              "r","d","a","y",")">>
      [] str = "GLP (vs Yesterday)" ->
            <<"G","L","P"," ","(","v","s"," ","Y","e","s","t","e","r","d","a","y",")">>
      [] str = "Action" -> <<"A","c","t","i","o","n">>
      [] str = "Patients Pending" ->
            <<"P","a","t","i","e","n","t","s"," ","P","e","n","d","i","n","g">>
      [] str = "User Not Onboarded" ->
            <<"U","s","e","r"," ","N","o","t"," ","O","n","b","o","a","r","d","e","d">>
      [] str = "Meal Logging" -> <<"M","e","a","l"," ","L","o","g","g","i","n","g">>
      [] str = "Weight Logging" -> <<"W","e","i","g","h","t"," ","L","o","g","g","i","n","g">>
      [] str = "No Interaction (2+ days)" ->
            <<"N","o"," ","I","n","t","e","r","a","c","t","i","o","n"," ","(","2","+"," ","d","a",
              "y","s",")">>
      [] str = ", " -> <<","," ">>
      [] str = " (" -> <<" ","(">>
      [] str = " days)" -> <<" ","d","a","y","s",")">>
      [] str = "Start Weight" -> <<"S","t","a","r","t"," ","W","e","i","g","h","t">>
      [] str = "Goal Weight" -> <<"G","o","a","l"," ","W","e","i","g","h","t">>
      [] str = "Current Weight" -> <<"C","u","r","r","e","n","t"," ","W","e","i","g","h","t">>
      [] str = " ASHA " -> <<" ","A","S","H","A"," ">>
      [] str = "asha" -> <<"a","s","h","a">>
      [] str = "bela" -> <<"b","e","l","a">>
      [] str = "Bela" -> <<"B","e","l","a">>
      [] str = "Zoya" -> <<"Z","o","y","a">>
      [] str = "Dr <b>" -> <<"D","r"," ","<","b",">">>
      [] str = "Travelling" -> <<"T","r","a","v","e","l","l","i","n","g">>
      [] str = "Dogfooding Analytics" ->
            <<"D","o","g","f","o","o","d","i","n","g"," ","A","n","a","l","y","t","i","c","s">>
      [] str = "Contact-Me Form leads" ->
            <<"C","o","n","t","a","c","t","-","M","e"," ","F","o","r","m"," ","l","e","a","d","s">>
      [] str = "New Signups(MDT/App)" ->
            <<"N","e","w"," ","S","i","g","n","u","p","s","(","M","D","T","/","A","p","p",")">>
      [] str = "90" -> <<"9","0">>
      [] str = "60" -> <<"6","0">>
      [] str = "80" -> <<"8","0">>
      [] str = "7" -> <<"7">>
      [] str = "2" -> <<"2">>
      [] str = " !#$%&()*+,-./0123456789:;<=>?@ABCDEFGHIJKLMNOPQRSTUVWXYZ[]^_abcdefghijklmnopqrstuvwxyz{|}~" ->
            <<" ","!","#","$","%","&","(",")","*","+",",","-",".","/","0","1","2","3","4","5","6",
              "7","8","9",":",";","<","=",">","?","@","A","B","C","D","E","F","G","H","I","J","K",
              "L","M","N","O","P","Q","R","S","T","U","V","W","X","Y","Z","[","]","^","_","a","b",
              "c","d","e","f","g","h","i","j","k","l","m","n","o","p","q","r","s","t","u","v","w",
              "x","y","z","{","|","}","~">>
      [] str = "Not onboarding reason" ->
            <<"N","o","t"," ","o","n","b","o","a","r","d","i","n","g"," ","r","e","a","s","o","n">>
      [] str = "Meal logging reason" ->
            <<"M","e","a","l"," ","l","o","g","g","i","n","g"," ","r","e","a","s","o","n">>
      [] str = "Weight logging reason" ->
            <<"W","e","i","g","h","t"," ","l","o","g","g","i","n","g"," ","r","e","a","s","o","n">>
      [] str = "4321" -> <<"4","3","2","1">>
      [] str = "9123456789x" -> <<"9","1","2","3","4","5","6","7","8","9","x">>
      [] str = "23456789" -> <<"2","3","4","5","6","7","8","9">>
      [] str = "987654321" -> <<"9","8","7","6","5","4","3","2","1">>
      [] str = "91987654321" -> <<"9","1","9","8","7","6","5","4","3","2","1">>
      [] str = "Total Users" -> <<"T","o","t","a","l"," ","U","s","e","r","s">>
      [] str = "0" -> <<"0">>
      [] str = "phone" -> <<"p","h","o","n","e">>
      [] str = "patient_name" -> <<"p","a","t","i","e","n","t","_","n","a","m","e">>
      [] str = "email" -> <<"e","m","a","i","l">>
      [] str = ""              -> <<>>

\* Rows the new-signups query can return (phone, patient_name, email).
SignupRow(phone, name, email) ==
    [phone |-> Chars(phone), patient_name |-> Chars(name), email |-> Chars(email)]

SignupPool ==
    { SignupRow("9876543210", "Asha", "a@x.in"),
      SignupRow("+919876543210", "", "NULL"),
      SignupRow("9123456789", "Asha", "null"),
      SignupRow("12345", "Asha", ""),
      SignupRow("", "Asha", "a@x.in"),
      SignupRow("98765 43210", " ", " ") }

\* Phones the active-customers query can return.
ActivePhonePool == { Chars("98765 43210"), Chars("9123456789"), Chars(" "), Chars("") }

SeqsUpTo(S, n) == UNION { [1..k -> S] : k \in 0..n }

\* Outcome of one analytics query: the call raises (timeout, connection or HTTP
\* error), or returns an envelope with or without a true success flag.
QueryRaise == [kind |-> "raise"]
QueryNoSuccess == [kind |-> "nosuccess"]
QueryOk(data) == [kind |-> "ok", data |-> data]

SignupOutcomes == {QueryRaise, QueryNoSuccess} \cup { QueryOk(d) : d \in SeqsUpTo(SignupPool, MaxRecords) }
ActiveOutcomes == {QueryRaise, QueryNoSuccess} \cup { QueryOk(d) : d \in SUBSET ActivePhonePool }

\* Outcome of one webhook POST: an HTTP status, or a transport exception.
HttpResponse(status) == [transport |-> "ok", status |-> status]
CrmOutcomes == { HttpResponse(201), HttpResponse(409), HttpResponse(500),
                 [transport |-> "timeout", status |-> 0],
                 [transport |-> "connection", status |-> 0] }

(***************************************************************************)
(* transform_external_data_to_lead (lead_sync_script.py 330-380).          *)
(***************************************************************************)
Lower(c) ==
    CASE c = "A" -> "a" [] c = "B" -> "b" [] c = "C" -> "c" [] c = "D" -> "d"
      [] c = "E" -> "e" [] c = "F" -> "f" [] c = "G" -> "g" [] c = "H" -> "h"
      [] c = "I" -> "i" [] c = "J" -> "j" [] c = "K" -> "k" [] c = "L" -> "l"
      [] c = "M" -> "m" [] c = "N" -> "n" [] c = "O" -> "o" [] c = "P" -> "p"
      [] c = "Q" -> "q" [] c = "R" -> "r" [] c = "S" -> "s" [] c = "T" -> "t"
      [] c = "U" -> "u" [] c = "V" -> "v" [] c = "W" -> "w" [] c = "X" -> "x"
      [] c = "Y" -> "y" [] c = "Z" -> "z"
      [] OTHER -> c

LowerStr(s) == [i \in 1..Len(s) |-> Lower(s[i])]

\* Keys whose value is None are removed from the payload.
LeadKeys(name, email) ==
    {"phone_number", "source", "sub_source", "status", "notes"}
        \cup (IF name = <<>> THEN {} ELSE {"name"})
        \cup (IF email = <<>> \/ LowerStr(email) = Chars("null") THEN {} ELSE {"email"})

transform_external_data_to_lead(external_record) ==
    LET phone == KeepDigits(Strip(external_record.phone))
        name == Strip(external_record.patient_name)
        email == Strip(external_record.email)
    IN [k \in LeadKeys(name, email) |->
            CASE k = "phone_number" -> phone
              [] k = "name" -> name
              [] k = "email" -> email
              [] k = "source" -> "MDT App Signup"
              [] k = "sub_source" -> "Daily Sync"
              [] k = "status" -> "New"
              [] k = "notes" -> "Auto-synced from MDT"]

(***************************************************************************)
(* CRMAPIClient.ingest_lead (lead_sync_script.py 213-293).                 *)
(***************************************************************************)
\* response.raise_for_status() raises HTTPError for a 4xx or 5xx status.
RaisesForStatus(status) == status >= 400

\* Truth value of a requests.Response object: Response.__bool__ is Response.ok,
\* true exactly when raise_for_status() would not raise.
ResponseTruthy(status) == ~RaisesForStatus(status)

\* 'N/A', the status_code the handler uses when `e.response` is falsy.
StatusNA == 0

\* status_code = e.response.status_code if e.response else 'N/A'
HandlerStatusCode(status) == IF ResponseTruthy(status) THEN status ELSE StatusNA

Returned(value) == [raised |-> FALSE, status |-> value]
Raised == [raised |-> TRUE, status |-> "error"]

ingest_lead(resp) ==
    IF resp.transport # "ok" THEN Raised
    ELSE IF ~RaisesForStatus(resp.status) THEN Returned("created")
    ELSE IF HandlerStatusCode(resp.status) = 409 THEN Returned("exists")
    ELSE Raised

(***************************************************************************)
(* sync_leads (lead_sync_script.py 387-542) and main (608-707).            *)
(***************************************************************************)
InitStats ==
    [total_fetched |-> 0, active_customers_filtered |-> 0, total_ingested |-> 0,
     already_exists |-> 0, failed |-> 0, errors |-> <<>>]

\* stats after stats['failed'] += 1; stats['errors'].append(error_msg)
RecordFailure(st, error_msg) ==
    [st EXCEPT !.failed = @ + 1, !.errors = Append(@, error_msg)]

\* Variant: the signup's phone is looked up as it came, not normalized.
FilterRecordsRawPhone(recs, active) ==
    SelectSeq(recs, LAMBDA r : r.phone \notin active)

\* Step 3: the signups whose normalized phone is no active customer's.
FilterRecords(recs, active) ==
    SelectSeq(recs, LAMBDA r : normalize_phone_number(r.phone) \notin active)

\* Variant: the length of the phone is not checked.
ValidPhoneAnyLength(lead_data) == lead_data.phone_number # <<>>

\* Step 4, the phone check of one transformed lead.
ValidPhone(lead_data) ==
    lead_data.phone_number # <<>> /\ Len(lead_data.phone_number) >= PhoneLen

TransformAll(recs) == [i \in 1..Len(recs) |-> transform_external_data_to_lead(recs[i])]

RECURSIVE TransformStats(_, _, _)
TransformStats(st, leads, recs) ==
    IF leads = <<>> THEN st
    ELSE TransformStats(
            IF ValidPhone(Head(leads)) THEN st ELSE RecordFailure(st, "Invalid phone number"),
            Tail(leads), Tail(recs))

\* validate_config(): API_KEY and CRM_WEBHOOK_API_KEY are set.
ValidateConfig ==
    /\ sl_pc = "main"
    /\ IF config_ok
       THEN sl_pc' = "step1" /\ exit_code' = exit_code
       ELSE sl_pc' = "exited" /\ exit_code' = 1
    /\ UNCHANGED <<config_ok, stats, records, active_customer_records,
                   active_customer_phones, filtered_records,
                   leads_to_ingest, idx, queries, posts, stage_failed, notSync>>

\* Variant: the non-success branch lacks its `return stats`.
SignupFetchNoEarlyReturn(out) ==
    IF out.kind = "raise" \/ (out.kind = "ok" /\ out.data = <<>>) THEN "returned" ELSE "step2"

\* Where sync_leads goes after the new-signups query: it returns early when the
\* call raised (outer handler), when the envelope reports no success, and when
\* no row came back.
SignupFetchNextPc(out) ==
    IF out.kind = "ok" /\ out.data # <<>> THEN "step2" ELSE "returned"

\* Step 1: the new-signups query, with both early returns and the outer handler.
FetchNewSignups ==
    /\ sl_pc = "step1"
    /\ \E out \in SignupOutcomes :
         /\ queries' = Append(queries, "NEW_SIGNUPS_QUERY")
         /\ CASE out.kind = "raise" ->
                   /\ stats' = [stats EXCEPT !.errors = Append(@, "Unexpected error during sync")]
                   /\ stage_failed' = stage_failed \cup {"FETCH_NEW_SIGNUPS"}
                   /\ sl_pc' = SignupFetchNextPc(out)
                   /\ records' = records
              [] out.kind = "nosuccess" ->
                   /\ stats' = [stats EXCEPT !.errors = Append(@, "External API query failed")]
                   /\ stage_failed' = stage_failed \cup {"FETCH_NEW_SIGNUPS"}
                   /\ sl_pc' = SignupFetchNextPc(out)
                   /\ records' = records
              [] out.kind = "ok" ->
                   /\ stats' = [stats EXCEPT !.total_fetched = Len(out.data)]
                   /\ records' = out.data
                   /\ stage_failed' = stage_failed
                   /\ sl_pc' = SignupFetchNextPc(out)
    /\ UNCHANGED <<config_ok, active_customer_records, active_customer_phones,
                   filtered_records, leads_to_ingest,
                   idx, posts, exit_code, notSync>>

\* The set comprehension of lines 441-445.
ActivePhoneSet(data) == { normalize_phone_number(p) : p \in { q \in data : q # <<>> } }

\* Steps 2 and 3: the active-customers query, then the filter loop.
FetchActiveCustomers ==
    /\ sl_pc = "step2"
    /\ \E out \in ActiveOutcomes :
         LET active == IF out.kind = "ok" THEN ActivePhoneSet(out.data) ELSE {}
             kept == FilterRecords(records, active)
         IN /\ queries' = Append(queries, "ACTIVE_CUSTOMERS_QUERY")
            /\ active_customer_records' = IF out.kind = "ok" THEN out.data ELSE {}
            /\ active_customer_phones' = active
            /\ stage_failed' = IF out.kind = "ok" THEN stage_failed
                                ELSE stage_failed \cup {"FETCH_ACTIVE_CUSTOMERS"}
            /\ filtered_records' = kept
            /\ stats' = [stats EXCEPT !.active_customers_filtered = Len(records) - Len(kept)]
            /\ sl_pc' = IF kept = <<>> THEN "returned" ELSE "step4"
    /\ UNCHANGED <<config_ok, records, leads_to_ingest, idx, posts, exit_code, notSync>>

\* Step 4: transform every remaining record and check its phone.
TransformRecords ==
    /\ sl_pc = "step4"
    /\ LET leads == TransformAll(filtered_records)
           valid == SelectSeq(leads, ValidPhone)
       IN /\ leads_to_ingest' = valid
          /\ stats' = TransformStats(stats, leads, filtered_records)
          /\ stage_failed' = IF Len(valid) = Len(leads) THEN stage_failed
                              ELSE stage_failed \cup {"TRANSFORM"}
          /\ idx' = 1
          /\ sl_pc' = IF valid = <<>> THEN "returned" ELSE "step5"
    /\ UNCHANGED <<config_ok, records, active_customer_records,
                   active_customer_phones, filtered_records,
                   queries, posts, exit_code, notSync>>

\* Variant: a POST that raises is counted nowhere.
IngestStatsFailureUncounted(st, resp) ==
    LET result == ingest_lead(resp)
    IN IF result.raised THEN st
       ELSE IF result.status = "exists" THEN [st EXCEPT !.already_exists = @ + 1]
       ELSE [st EXCEPT !.total_ingested = @ + 1]

\* stats after one pass of the ingestion loop body for a lead answered by resp.
IngestStats(st, resp) ==
    LET result == ingest_lead(resp)
    IN IF result.raised THEN RecordFailure(st, "Failed to ingest lead")
       ELSE IF result.status = "exists" THEN [st EXCEPT !.already_exists = @ + 1]
       ELSE [st EXCEPT !.total_ingested = @ + 1]

\* Variant: an exception of ingest_lead leaves the loop.
NextLeadStopOnFailure(i, result) ==
    IF result.raised THEN Len(leads_to_ingest) + 1 ELSE i + 1

\* The position of the ingestion loop after the pass for lead i, whatever it did.
NextLead(i, result) == i + 1

\* Step 5: one pass of the ingestion loop.
IngestLead ==
    /\ sl_pc = "step5"
    /\ idx <= Len(leads_to_ingest)
    /\ \E resp \in CrmOutcomes :
         /\ posts' = Append(posts, [lead |-> leads_to_ingest[idx], resp |-> resp])
         /\ stats' = IngestStats(stats, resp)
         /\ stage_failed' = IF ingest_lead(resp).raised
                             THEN stage_failed \cup {"INGEST_EACH"} ELSE stage_failed
         /\ idx' = NextLead(idx, ingest_lead(resp))
         /\ sl_pc' = IF idx' > Len(leads_to_ingest) THEN "returned" ELSE "step5"
    /\ UNCHANGED <<config_ok, records, active_customer_records,
                   active_customer_phones, filtered_records,
                   leads_to_ingest, queries, exit_code, notSync>>

\* main(): the success expression of lines 675-678.
Success(st) ==
    /\ st.failed = 0
    /\ (st.total_ingested > 0 \/ st.already_exists > 0 \/ st.total_fetched = 0)

\* sys.exit(0 if success else 1)
ExitCode(success) == IF success THEN 0 ELSE 1

MainExit ==
    /\ sl_pc = "returned"
    /\ exit_code' = ExitCode(Success(stats))
    /\ sl_pc' = "exited"
    /\ UNCHANGED <<config_ok, stats, records, active_customer_records,
                   active_customer_phones, filtered_records,
                   leads_to_ingest, idx, queries, posts, stage_failed, notSync>>

\* KeyboardInterrupt while sync_leads runs: not an Exception, so it passes every
\* handler of sync_leads and main() returns False.
Interrupt ==
    /\ sl_pc \in {"step1", "step2", "step4", "step5"}
    /\ exit_code' = 1
    /\ sl_pc' = "interrupted"
    /\ UNCHANGED <<config_ok, stats, records, active_customer_records,
                   active_customer_phones, filtered_records,
                   leads_to_ingest, idx, queries, posts, stage_failed, notSync>>

SyncNext ==
    \/ ValidateConfig
    \/ FetchNewSignups
    \/ FetchActiveCustomers
    \/ TransformRecords
    \/ IngestLead
    \/ MainExit
    \/ Interrupt

(***************************************************************************)
(* normalize_phone_number applied to arbitrary inputs, once and twice.      *)
(***************************************************************************)
PhoneTokens ==
    {"+91", "91", "98765", "43210", "4321", "9876543210", "9123456789", "1", " ", "-", "x"}

\* Every string made of at most MaxTokens tokens.
PhoneInputs == { Concat([i \in 1..Len(ts) |-> Chars(ts[i])]) : ts \in SeqsUpTo(PhoneTokens, MaxTokens) }

\* normalize_phone_number(x)
PhoneNormalize ==
    /\ ph_pc = "input"
    /\ ph_out' = normalize_phone_number(ph_in)
    /\ ph_pc' = "once"
    /\ UNCHANGED <<ph_in, ph_out2, notPhone>>

\* normalize_phone_number(normalize_phone_number(x))
PhoneRenormalize ==
    /\ ph_pc = "once"
    /\ ph_out2' = normalize_phone_number(ph_out)
    /\ ph_pc' = "twice"
    /\ UNCHANGED <<ph_in, ph_out, notPhone>>

PhoneNext == PhoneNormalize \/ PhoneRenormalize

(***************************************************************************)
(* compute_progress_status (earlyfit_email_report.py 1148-1183) with its   *)
(* parsers.  A cell value is missing (None), text that is no number / no    *)
(* date, or a number / a date; a date is kept as the number of days from it *)
(* to today (negative for a date in the future).                            *)
(***************************************************************************)
Missing == [kind |-> "none"]
Text == [kind |-> "text"]
Empty == [kind |-> "empty"]
Num(n) == [kind |-> "num", v |-> n]
Date(days_ago) == [kind |-> "date", v |-> days_ago]

NoValue == [ok |-> FALSE]
Value(v) == [ok |-> TRUE, v |-> v]

\* parse_float (988-994): None for None and for text float() rejects.
parse_float(value) == IF value.kind = "num" THEN Value(value.v) ELSE NoValue

\* parse_date (997-1020): None for None, for the empty string and for text no
\* format matches.
parse_date(value) == IF value.kind = "date" THEN Value(value.v) ELSE NoValue

\* Truth value of a cell: None and the empty string are falsy.
Truthy(value) == value.kind \notin {"none", "empty"}

\* _get_sheet_value (982-985) for the column "Glp 1st dose": the entry is None
\* for a patient the sheet does not list; a listed patient's entry holds the
\* cell, None when the sheet has no such column.
NoEntry == [present |-> FALSE]
SheetEntry(glp_dose) == [present |-> TRUE, glp_dose |-> glp_dose]
AnalyticsEntry(start, goal, current, lose) ==
    [present |-> TRUE, start |-> start, goal |-> goal, current |-> current, lose |-> lose]

GetGlpDose(sheet_entry) == IF sheet_entry.present THEN sheet_entry.glp_dose ELSE Missing

\* The fixed horizon of line 1172.
HorizonDays == 90

\* Variant: a zero target passes.
TargetNegative(total_target_loss) == total_target_loss < 0

\* if total_target_loss <= 0 (line 1162)
TargetNotPositive(total_target_loss) == total_target_loss <= 0

\* max((today - glp_dose_date).days, 0) (line 1170)
DaysSince(elapsed) == IF elapsed > 0 THEN elapsed ELSE 0

\* Variant: the comparison is strict.
ExceedsIdealLoss(current_loss, total_target_loss, days_since) ==
    current_loss * HorizonDays > total_target_loss * days_since

\* current_loss >= ideal_loss, ideal_loss = (total_target_loss / 90.0) * days_since
\* (lines 1172-1183), compared exactly: both sides times the horizon.
MeetsIdealLoss(current_loss, total_target_loss, days_since) ==
    current_loss * HorizonDays >= total_target_loss * days_since

\* Lines 1175-1181: the loss from the current weight, else "Current Weight Lose".
CurrentLoss(start_weight, current_weight, lose) ==
    IF current_weight.ok THEN Value(start_weight.v - current_weight.v) ELSE lose

compute_progress_status(sheet_entry, analytics_entry) ==
    IF ~analytics_entry.present THEN "Data Incomplete"
    ELSE LET start_weight == parse_float(analytics_entry.start)
             goal_weight == parse_float(analytics_entry.goal)
             current_weight == parse_float(analytics_entry.current)
         IN IF ~start_weight.ok \/ ~goal_weight.ok THEN "Data Incomplete"
            ELSE LET total_target_loss == start_weight.v - goal_weight.v
                     glp_dose_value == GetGlpDose(sheet_entry)
                     glp_dose_date == IF Truthy(glp_dose_value) THEN parse_date(glp_dose_value)
                                      ELSE NoValue
                 IN IF TargetNotPositive(total_target_loss) THEN "Data Incomplete"
                    ELSE IF ~glp_dose_date.ok THEN "Data Incomplete"
                    ELSE LET days_since == DaysSince(glp_dose_date.v)
                             current_loss == CurrentLoss(start_weight, current_weight,
                                                         parse_float(analytics_entry.lose))
                         IN IF ~current_loss.ok THEN "Data Incomplete"
                            ELSE IF MeetsIdealLoss(current_loss.v, total_target_loss, days_since)
                                 THEN "On Track" ELSE "Off Track"

MaxWeightSteps == 3     \* weights are 60, 70, ... kg
MaxElapsedSteps == 5    \* reference dates lie 30 days apart, the first in the future

Weights == { 60 + 10 * k : k \in 0..MaxWeightSteps }
Losses == { 10 * k : k \in 0..1 }
ElapsedDays == { 30 * d - 30 : d \in 0..MaxElapsedSteps }

WeightCells == {Missing, Text} \cup { Num(w) : w \in Weights }
LossCells == {Missing} \cup { Num(l) : l \in Losses }
DateCells == {Missing, Empty, Text} \cup { Date(e) : e \in ElapsedDays }

SheetEntries == {NoEntry} \cup { SheetEntry(d) : d \in DateCells }
AnalyticsEntries ==
    {NoEntry} \cup { AnalyticsEntry(s, g, c, l) :
                        s \in WeightCells, g \in WeightCells, c \in WeightCells, l \in LossCells }

\* row[status_column] = compute_progress_status(sheet_entry, analytics_entry)
ComputeStatus ==
    /\ pg_pc = "row"
    /\ pg_status' = compute_progress_status(pg_sheet, pg_analytics)
    /\ pg_pc' = "done"
    /\ UNCHANGED <<pg_sheet, pg_analytics, notProgress>>

ProgressNext == ComputeStatus

(***************************************************************************)
(* send_report_email of dogfooding_mail.py (455-577),                      *)
(* earlyfit_email_report.py (1533-1782) and leads_mail.py (479-684).       *)
(***************************************************************************)
NumRecipients == 5      \* length of the RECIPIENTS list

Scripts == {"dogfooding", "analytics", "leads"}

\* RECIPIENTS, the addresses being 1..NumRecipients in list order.
RECIPIENTS == [i \in 1..NumRecipients |-> i]

\* ERROR_NOTIFICATION_EMAIL of leads_mail.py, no member of RECIPIENTS.
ERROR_NOTIFICATION_EMAIL == "operator"

\* len(SQL_QUERIES)
NumQueries(script) ==
    CASE script = "dogfooding" -> 1
      [] script = "analytics" -> 4
      [] script = "leads" -> 2

\* What one query_analytics call can do: raise, return a non-success envelope,
\* or succeed with no row or with rows.
QueryOutcomes == {"raise", "nosuccess", "empty", "rows"}

\* Variant: a query that returned no row adds no table either.
QueryReturnedRows(outcome) == outcome = "rows"

\* isinstance(result, dict) and result.get("success")
QuerySucceeded(outcome) == outcome \in {"empty", "rows"}

\* Variant: the flag is never cleared.
QueryFailuresIgnored(outcomes) == TRUE

\* all_successful / all_queries_successful after the query loop
AllQueriesSuccessful(outcomes) == \A i \in 1..Len(outcomes) : QuerySucceeded(outcomes[i])

\* not tables_data or not any(data for _, data in tables_data)
NoDataReturned(tables) == tables = <<>> \/ \A i \in 1..Len(tables) : tables[i].rows = 0

\* leads_mail collects error strings; the other two scripts only print them.
LogError(script, log, error_msg) == IF script = "leads" THEN Append(log, error_msg) ELSE log

\* Variant: the notification carries the last error string only.
NotifyLastErrorOnly(script, sent, log) ==
    IF script = "leads"
    THEN Append(sent, [to |-> ERROR_NOTIFICATION_EMAIL, body |-> <<log[Len(log)]>>])
    ELSE sent

\* send_error_notification("\n".join(error_log)), leads_mail only: one more
\* notification whose body is the error log as it stands.
Notify(script, sent, log) ==
    IF script = "leads" THEN Append(sent, [to |-> ERROR_NOTIFICATION_EMAIL, body |-> log])
    ELSE sent

\* One pass of the query loop.
RunQuery ==
    /\ ml_pc = "query"
    /\ Len(ml_queries) < NumQueries(ml_script)
    /\ \E out \in QueryOutcomes :
         LET heading == Len(ml_queries) + 1
         IN /\ ml_queries' = Append(ml_queries, out)
            /\ tables_data' = IF QuerySucceeded(out)
                               THEN Append(tables_data, [heading |-> heading,
                                                         rows |-> IF out = "rows" THEN 1 ELSE 0])
                               ELSE tables_data
            /\ error_log' = CASE out = "nosuccess" -> LogError(ml_script, error_log, "Query failed")
                               [] out = "raise" -> LogError(ml_script, error_log, "Query exception")
                               [] OTHER -> error_log
            /\ ml_pc' = IF heading = NumQueries(ml_script) THEN "check" ELSE "query"
    /\ UNCHANGED <<ml_script, sheets_success, smtp_log, failed_recipients, notifications,
                   ml_result, sheet_appends, notMail>>

\* The checks between the query loop and the rendering.
CheckQueries ==
    /\ ml_pc = "check"
    /\ IF ml_script = "leads"
       THEN IF ~AllQueriesSuccessful(ml_queries)
            THEN /\ error_log' = Append(error_log, "One or more database queries failed")
                 /\ notifications' = Notify(ml_script, notifications, error_log')
                 /\ ml_result' = FALSE
                 /\ ml_pc' = "done"
            ELSE IF tables_data = <<>>
            THEN /\ error_log' = Append(error_log, "No data returned from any query")
                 /\ notifications' = Notify(ml_script, notifications, error_log')
                 /\ ml_result' = FALSE
                 /\ ml_pc' = "done"
            ELSE /\ ml_pc' = "sheets"
                 /\ UNCHANGED <<error_log, notifications, ml_result>>
       ELSE /\ IF NoDataReturned(tables_data)
               THEN ml_result' = FALSE /\ ml_pc' = "done"
               ELSE ml_result' = ml_result /\ ml_pc' = "html"
            /\ UNCHANGED <<error_log, notifications>>
    /\ UNCHANGED <<ml_script, ml_queries, tables_data, sheets_success, smtp_log,
                   failed_recipients, sheet_appends, notMail>>

\* leads_mail step 3: what the spreadsheet step can meet.  Appending an empty
\* table returns True without calling the API.
SheetOutcomes(tables) ==
    {"ok", "no_service", "no_spreadsheet_id", "exception"}
        \cup (IF Len(tables) >= 2 /\ tables[2].rows > 0 THEN {"append_failed"} ELSE {})

WriteSheets ==
    /\ ml_pc = "sheets"
    /\ \E out \in SheetOutcomes(tables_data) :
         /\ sheets_success' = (out = "ok")
         /\ error_log' =
              CASE out = "ok" -> error_log
                [] out = "no_service" -> Append(error_log, "Could not authenticate with Google Sheets")
                [] out = "no_spreadsheet_id" -> Append(error_log, "SPREADSHEET_ID is not set in .env file")
                [] out = "append_failed" -> Append(error_log, "Failed to append data to sheet")
                [] out = "exception" -> Append(error_log, "Failed to write to Google Sheets")
         /\ sheet_appends' = IF out = "ok" /\ Len(tables_data) >= 2 /\ tables_data[2].rows > 0
                              THEN Append(sheet_appends, tables_data[2].heading)
                              ELSE sheet_appends
    /\ ml_pc' = "html"
    /\ UNCHANGED <<ml_script, ml_queries, tables_data, smtp_log, failed_recipients,
                   notifications, ml_result, notMail>>

\* Rendering the document; earlyfit_email_report.py stops here when
\* ENABLE_EMAIL_SENDING is false.
GenerateHtml ==
    /\ ml_pc = "html"
    /\ \E rendered \in BOOLEAN, enabled \in (IF ml_script = "analytics" THEN BOOLEAN ELSE {TRUE}) :
         IF ~rendered
         THEN /\ error_log' = LogError(ml_script, error_log, "Failed to generate email HTML")
              /\ notifications' = Notify(ml_script, notifications, error_log')
              /\ ml_result' = FALSE
              /\ ml_pc' = "done"
         ELSE /\ IF enabled THEN ml_result' = ml_result /\ ml_pc' = "connect"
                            ELSE ml_result' = TRUE /\ ml_pc' = "done"
              /\ UNCHANGED <<error_log, notifications>>
    /\ UNCHANGED <<ml_script, ml_queries, tables_data, sheets_success, smtp_log,
                   failed_recipients, sheet_appends, notMail>>

\* smtplib.SMTP(...), starttls() and login(): each can raise, login with
\* SMTPAuthenticationError or with another exception.
ConnectOutcomes == {"connect_error", "auth_error", "login_error", "ok"}

\* Variant: a failed login does not leave the function.
LoginFailureIgnored(out) == "send"

\* The recipient loop is entered only after login() has returned.
LoginNextPc(out) == IF out = "ok" THEN "send" ELSE "done"

ConnectAndLogin ==
    /\ ml_pc = "connect"
    /\ \E out \in ConnectOutcomes :
         /\ smtp_log' = smtp_log \o
                (IF out = "connect_error" THEN <<>> ELSE <<[cmd |-> "login", outcome |-> out]>>)
         /\ IF out = "ok"
            THEN /\ ml_pc' = LoginNextPc(out)
                 /\ UNCHANGED <<error_log, notifications, ml_result>>
            ELSE /\ error_log' = LogError(ml_script, error_log,
                                   IF out = "auth_error" THEN "SMTP Authentication failed"
                                   ELSE "Failed to send email")
                 /\ notifications' = Notify(ml_script, notifications, error_log')
                 /\ ml_result' = FALSE
                 /\ ml_pc' = LoginNextPc(out)
    /\ UNCHANGED <<ml_script, ml_queries, tables_data, sheets_success, failed_recipients,
                   sheet_appends, notMail>>

\* The send_message calls made so far, in order.
SendAttempts(log) == SelectSeq(log, LAMBDA e : e.cmd = "send")

\* Variant: the first failed send ends the loop.
NextRecipientStopOnFailure(i, sent_ok) == IF sent_ok THEN i + 1 ELSE Len(RECIPIENTS) + 1

\* The recipient loop goes on to the next address whatever the send did.
NextRecipient(i, sent_ok) == i + 1

\* One pass of the recipient loop.
SendToRecipient ==
    /\ ml_pc = "send"
    /\ LET i == Len(SendAttempts(smtp_log)) + 1
       IN \E sent_ok \in BOOLEAN :
            /\ smtp_log' = Append(smtp_log, [cmd |-> "send", to |-> RECIPIENTS[i], ok |-> sent_ok])
            /\ failed_recipients' = IF sent_ok THEN failed_recipients
                                     ELSE Append(failed_recipients, RECIPIENTS[i])
            /\ error_log' = IF sent_ok THEN error_log
                             ELSE LogError(ml_script, error_log, "Failed to send to recipient")
            /\ ml_pc' = IF NextRecipient(i, sent_ok) > Len(RECIPIENTS) THEN "quit" ELSE "send"
    /\ UNCHANGED <<ml_script, ml_queries, tables_data, sheets_success, notifications,
                   ml_result, sheet_appends, notMail>>

\* The value returned after server.quit() has succeeded.
SendResult(failed) == failed = <<>>

\* server.quit() and the return; an exception of quit() reaches the outer handler.
QuitAndReturn ==
    /\ ml_pc = "quit"
    /\ \E quit_ok \in BOOLEAN :
         /\ smtp_log' = Append(smtp_log, [cmd |-> "quit", ok |-> quit_ok])
         /\ IF ~quit_ok
            THEN /\ error_log' = LogError(ml_script, error_log, "Failed to send email")
                 /\ notifications' = Notify(ml_script, notifications, error_log')
                 /\ ml_result' = FALSE
            ELSE /\ error_log' = IF failed_recipients # <<>>
                                  THEN LogError(ml_script, error_log, "Failed to send to recipient(s)")
                                  ELSE error_log
                 /\ notifications' = IF failed_recipients # <<>> \/ ~sheets_success
                                      THEN Notify(ml_script, notifications, error_log')
                                      ELSE notifications
                 /\ ml_result' = SendResult(failed_recipients)
    /\ ml_pc' = "done"
    /\ UNCHANGED <<ml_script, ml_queries, tables_data, sheets_success, failed_recipients,
                   sheet_appends, notMail>>

MailNext ==
    \/ RunQuery
    \/ CheckQueries
    \/ WriteSheets
    \/ GenerateHtml
    \/ ConnectAndLogin
    \/ SendToRecipient
    \/ QuitAndReturn

(***************************************************************************)
(* query_analytics of the four API clients: ExternalAPIClient of           *)
(* lead_sync_script.py (137-198) and EarlyFitAPIClient of                  *)
(* earlyfit_email_report.py (1494-1526), leads_mail.py (440-472) and       *)
(* dogfooding_mail.py (416-448).  The four differ in what they log only.   *)
(***************************************************************************)
Clients == {"lead_sync", "analytics", "leads", "dogfooding"}

\* What the endpoint sends back as the body: text that is no JSON, a JSON
\* value that is no object, or an object whose "success" entry is true, false
\* or absent and whose "data" entry holds a number of rows.
InvalidJson == [kind |-> "invalid"]
JsonList == [kind |-> "list"]
Envelope(success, rows) == [kind |-> "dict", success |-> success, data |-> rows]

SuccessFlags == {"true", "false", "missing"}

Bodies == {InvalidJson, JsonList}
            \cup { Envelope(f, n) : f \in SuccessFlags, n \in 0..MaxRecords }

HttpStatuses == {200, 400, 401, 404, 500, 503}

\* What requests.post can meet: a Timeout, a ConnectionError, or a response.
NoResponse == [transport |-> "none"]
TransportFailure(kind) == [transport |-> kind]
EndpointResponse(status, body) == [transport |-> "ok", status |-> status, body |-> body]

EndpointResponses ==
    {TransportFailure("timeout"), TransportFailure("connection")}
        \cup { EndpointResponse(st, b) : st \in HttpStatuses, b \in Bodies }

\* isinstance(result, dict) and result.get("success")
IsSuccessEnvelope(result) == result.kind = "dict" /\ result.success = "true"

QueryRaised == [raised |-> TRUE]
QueryReturned(result) == [raised |-> FALSE, result |-> result]

\* Variant: the status of the response is not looked at.
QueryHttpErrorIgnored(status) == FALSE

\* response.raise_for_status()
QueryHttpError(status) == RaisesForStatus(status)

\* response.json() raises for a body that is no JSON.
DecodeFails(body) == body.kind = "invalid"

\* Every exception is re-raised; both branches of the success test return result.
query_analytics(response) ==
    IF response.transport # "ok" THEN QueryRaised
    ELSE IF QueryHttpError(response.status) THEN QueryRaised
    ELSE IF DecodeFails(response.body) THEN QueryRaised
    ELSE IF IsSuccessEnvelope(response.body) THEN QueryReturned(response.body)
    ELSE QueryReturned(response.body)

\* result = client.query_analytics(sql_query)
CallQueryAnalytics ==
    /\ qa_pc = "call"
    /\ qa_result' = query_analytics(qa_response)
    /\ qa_pc' = "done"
    /\ UNCHANGED <<qa_client, qa_response, notQuery>>

QueryNext == CallQueryAnalytics

(***************************************************************************)
(* Table rendering: generate_email_table of earlyfit_email_report.py       *)
(* (1265-1380) and of dogfooding_mail.py (228-335), format_data_as_table   *)
(* of leads_mail.py (203-264).                                             *)
(* A row is a dict in insertion order: a sequence of [k, v] pairs with     *)
(* distinct keys.  A value is a string (a sequence of characters) or None; *)
(* the value under "__cell_classes__" is a dict from column to class.  The *)
(* HTML produced is kept as its elements, each with the text the code puts *)
(* between its tags.                                                       *)
(***************************************************************************)
MaxRows == 2            \* rows of one table
MaxAppends == 3         \* calls of append_to_google_sheet in a row

\* The value None, told apart from every string.
NoneValue == <<None>>

Pair(k, v) == [k |-> k, v |-> v]

\* row.keys(), in insertion order
RowKeys(row) == [i \in 1..Len(row) |-> row[i].k]

HasKey(row, key) == \E i \in 1..Len(row) : row[i].k = key

\* row.get(key, default)
Get(row, key, default) ==
    IF HasKey(row, key) THEN row[CHOOSE i \in 1..Len(row) : row[i].k = key].v ELSE default

\* row[key] = value: an existing key keeps its place, a new one goes last.
SetKey(row, key, value) ==
    IF HasKey(row, key)
    THEN [i \in 1..Len(row) |-> IF row[i].k = key THEN Pair(key, value) ELSE row[i]]
    ELSE Append(row, Pair(key, value))

\* The empty dict {} and a dict of cell classes.
EmptyDict == <<>>
ClassesOf(row) == Get(row, "__cell_classes__", EmptyDict)

\* cell_classes_map.get(col), the empty string standing for None
ExtraCellClass(row, col) ==
    IF col \in DOMAIN ClassesOf(row) THEN ClassesOf(row)[col] ELSE ""

RECURSIVE Replace(_, _, _)
\* str.replace for a one-character pattern
Replace(s, c, repl) ==
    IF s = <<>> THEN <<>>
    ELSE (IF Head(s) = c THEN repl ELSE <<Head(s)>>) \o Replace(Tail(s), c, repl)

\* Variant: the ampersand is replaced last.
EscapeAmpersandLast(value) ==
    Replace(Replace(Replace(value, "<", Chars("&lt;")), ">", Chars("&gt;")), "&", Chars("&amp;"))

\* value.replace("&", "&amp;").replace("<", "&lt;").replace(">", "&gt;")
EscapeHtml(value) ==
    Replace(Replace(Replace(value, "&", Chars("&amp;")), "<", Chars("&lt;")), ">", Chars("&gt;"))

\* The text of a body cell: None gives "", a string is escaped.
CellText(value) == IF value = NoneValue THEN <<>> ELSE EscapeHtml(value)

\* str(value).strip() if value is not None else ""
ValueStr(value) == IF value = NoneValue THEN <<>> ELSE Strip(value)

\* `sub in s`
Contains(s, sub) ==
    \E i \in 1..(Len(s) - Len(sub) + 1) : SubSeq(s, i, i + Len(sub) - 1) = sub

DigitValue(c) == CHOOSE n \in 0..9 : ToString(n) = c

RECURSIVE NatValue(_)
NatValue(s) ==
    IF s = <<>> THEN 0 ELSE 10 * NatValue(SubSeq(s, 1, Len(s) - 1)) + DigitValue(s[Len(s)])

\* float(value_str) for the whole numbers the tables hold; a ValueError for
\* every other text of the model.
to_float(str) ==
    LET negative == str # <<>> /\ Head(str) = "-"
        body == IF negative THEN Tail(str) ELSE str
    IN IF body # <<>> /\ KeepDigits(body) = body
       THEN Value(IF negative THEN 0 - NatValue(body) ELSE NatValue(body))
       ELSE NoValue

IsNo(value_str) == LowerStr(value_str) = Chars("no")

\* column_name == "On/Off Track" (earlyfit_email_report.py 1311)
IsStatusColumn(column_name) == column_name = "On/Off Track"

\* get_cell_class_and_style of earlyfit_email_report.py (1278-1322): the class.
get_cell_class_and_style(column_name, value, conditional_formatting) ==
    LET value_str == ValueStr(value)
        number == to_float(value_str)
    IN IF ~conditional_formatting THEN ""
       ELSE IF column_name = "User Onboarded" /\ IsNo(value_str) THEN "bg-red"
       ELSE IF column_name \in {"Goals Set", "Smart Scale Logged", "Meal Logged"}
               /\ IsNo(value_str) THEN "bg-yellow"
       ELSE IF column_name \in {"Interaction (5 Days)", "Meal Log (3 days)",
                                "Weight Log (7 days)"}
               /\ IsNo(value_str) THEN "bg-yellow"
       ELSE IF column_name = "Days Since Last Interaction" /\ number.ok /\ number.v >= 5
            THEN "bg-red"
       ELSE IF column_name = "Days Since Last Interaction" /\ number.ok /\ number.v >= 2
            THEN "bg-yellow"
       ELSE IF IsStatusColumn(column_name) /\ Contains(LowerStr(value_str), Chars("off track"))
            THEN "bg-orange"
       ELSE IF column_name = "Current Weight Lose" /\ number.ok /\ number.v < 0 THEN "bg-red"
       ELSE ""

\* get_cell_color of dogfooding_mail.py (234-273)
get_cell_color(column_name, value, conditional_formatting) ==
    LET value_str == ValueStr(value)
        number == to_float(value_str)
    IN IF ~conditional_formatting THEN ""
       ELSE IF column_name = "User Onboarded" /\ IsNo(value_str) THEN "#ff6666"
       ELSE IF column_name \in {"Goals Set", "Smart Scale Logged", "Meal Logged"}
               /\ IsNo(value_str) THEN "#ffff00"
       ELSE IF column_name \in {"Interaction (5 Days)", "Meal Log (3 days)",
                                "Weight Log (7 days)", "Weight Log(last 7 days )"}
               /\ IsNo(value_str) THEN "#ffff00"
       ELSE IF column_name = "Active Yesterday" /\ IsNo(value_str) THEN "#ff6666"
       ELSE IF column_name = "On/Off Track" /\ Contains(LowerStr(value_str), Chars("off track"))
            THEN "#ff9900"
       ELSE IF column_name = "Current Weight Lose" /\ number.ok /\ number.v < 0 THEN "#ff6666"
       ELSE ""

\* " ".join(cls for cls in [cell_class, extra_cell_class] if cls)
CombinedClass(cell_class, extra_cell_class) ==
    SelectSeq(<<cell_class, extra_cell_class>>, LAMBDA cls : cls # "")

\* Variant: only "__cell_classes__" is left out.
IsCellClassesKey(col) == col = "__cell_classes__"

\* col.startswith("__"), or the key "_cell_classes__" that line 1272 names too
IsMetadataKey(col) == StartsWith(Chars(col), Chars("__")) \/ col = "_cell_classes__"

\* The columns of the table: the keys of the first row, less the metadata keys
\* and the excluded columns (earlyfit_email_report.py 1270-1276).
Columns(data, exclude_columns) ==
    SelectSeq(RowKeys(data[1]), LAMBDA col : ~IsMetadataKey(col) /\ col \notin exclude_columns)

\* columns = list(data[0].keys()) of the other two scripts
AllColumns(data) == RowKeys(data[1])

\* What a rendering call gives: the placeholder paragraph, a table, or an
\* exception.
NoDataPlaceholder(text) == [kind |-> "no_data", text |-> text]
RenderRaised == [kind |-> "raised"]
Table(title, header, body) == [kind |-> "table", title |-> title, header |-> header, body |-> body]

HeaderCells(columns) == [i \in 1..Len(columns) |-> Chars(columns[i])]

\* Variant: the test for an empty row list is missing.
EmptyCheckSkipped(data) == FALSE

\* if not data
IsEmptyData(data) == data = <<>>

\* `title` as the f-string prints it
TitleText(title) == IF title = NoneValue THEN Chars("None") ELSE title

\* if title: ... <h2>{title}</h2>
TitleBlock(title) == IF title = NoneValue \/ title = <<>> THEN NoneValue ELSE title

\* generate_email_table of earlyfit_email_report.py
generate_email_table(data, title, conditional_formatting, exclude_columns) ==
    IF IsEmptyData(data) THEN NoDataPlaceholder(Chars("No data available"))
    ELSE IF data = <<>> THEN RenderRaised
    ELSE LET columns == Columns(data, exclude_columns)
         IN Table(TitleBlock(title), HeaderCells(columns),
                  [r \in 1..Len(data) |->
                      [c \in 1..Len(columns) |->
                          LET value == Get(data[r], columns[c], <<>>)
                          IN [class |-> CombinedClass(
                                            get_cell_class_and_style(columns[c], value,
                                                                     conditional_formatting),
                                            ExtraCellClass(data[r], columns[c])),
                              text |-> CellText(value)]]])

\* generate_email_table of dogfooding_mail.py
dogfooding_generate_email_table(data, title, conditional_formatting) ==
    IF IsEmptyData(data) THEN NoDataPlaceholder(Chars("No data available"))
    ELSE IF data = <<>> THEN RenderRaised
    ELSE LET columns == AllColumns(data)
         IN Table(TitleBlock(title), HeaderCells(columns),
                  [r \in 1..Len(data) |->
                      [c \in 1..Len(columns) |->
                          LET value == Get(data[r], columns[c], <<>>)
                          IN [class |-> CombinedClass(
                                            get_cell_color(columns[c], value,
                                                           conditional_formatting), ""),
                              text |-> CellText(value)]]])

\* format_data_as_table of leads_mail.py
format_data_as_table(data, title) ==
    IF IsEmptyData(data)
    THEN NoDataPlaceholder(Chars("No data available for ") \o TitleText(title))
    ELSE IF data = <<>> THEN RenderRaised
    ELSE LET columns == AllColumns(data)
         IN Table(TitleBlock(title), HeaderCells(columns),
                  [r \in 1..Len(data) |->
                      [c \in 1..Len(columns) |->
                          [class |-> <<>>,
                           text |-> CellText(Get(data[r], columns[c], <<>>))]]])

\* The rendering function of each script.
RenderTable(script, data, title, conditional_formatting, exclude_columns) ==
    CASE script = "analytics" ->
            generate_email_table(data, title, conditional_formatting, exclude_columns)
      [] script = "dogfooding" ->
            dogfooding_generate_email_table(data, title, conditional_formatting)
      [] script = "leads" -> format_data_as_table(data, title)

\* Rows a query or the annotator can hand to the renderer.
BlueCell == "cell-blue cell-blue-text"

RowPool ==
    { <<Pair("Patient Name", Chars("O<Reilly> & Sons")), Pair("User Onboarded", Chars("No")),
        Pair("OnTrack/OffTrack", Chars("Off Track"))>>,
      <<Pair("Patient Name", Chars("Asha")), Pair("User Onboarded", Chars(" no ")),
        Pair("On/Off Track", Chars("Off Track"))>>,
      <<Pair("Patient Name", Chars("&lt;")), Pair("User Onboarded", Chars("R&D")),
        Pair("Consultant Name", Chars("<b>")),
        Pair("__cell_classes__", [col \in {"User Onboarded"} |-> BlueCell])>>,
      <<Pair("__row_class__", Chars("x")), Pair("Patient Name", NoneValue)>>,
      <<Pair("Last Note", Chars("<b>")), Pair("Patient Name", Chars("Asha")),
        Pair("Days Since Last Interaction", Chars("5")),
        Pair("Current Weight Lose", Chars("-2"))>>,
      <<Pair("__cell_classes__", EmptyDict), Pair("Meal Log (3 days)", Chars("No")),
        Pair("Days Since Last Interaction", Chars("3"))>> }

\* Only earlyfit_email_report.py puts metadata keys into its rows.
IsPlainRow(row) == \A i \in 1..Len(row) : ~IsMetadataKey(row[i].k)

Tables(script) ==
    IF script = "analytics" THEN SeqsUpTo(RowPool, MaxRows)
    ELSE SeqsUpTo({ row \in RowPool : IsPlainRow(row) }, MaxRows)

\* exclude_columns: None, or the list of line 1454.
ExcludeLists == { {}, {"Consultant ID", "Consultant Name", "Subscription Name"} }

Titles == { NoneValue, Chars("R&D") }

\* One call of the script's rendering function.
RenderOneTable ==
    /\ tb_pc = "call"
    /\ tb_out' = RenderTable(tb_script, tb_data, tb_title, tb_formatting, tb_exclude)
    /\ tb_pc' = "done"
    /\ UNCHANGED <<tb_script, tb_data, tb_title, tb_formatting, tb_exclude, notTable>>

TableNext == RenderOneTable

(***************************************************************************)
(* The report of earlyfit_email_report.py from the end of the query loop   *)
(* to the HTML document (send_report_email 1612-1716): the Row Annotator   *)
(* (annotate_tables_with_sheet_data 1036-1086, update_logging_reason       *)
(* 1186-1205), update_summary_with_detailed_track_counts (1089-1145), the  *)
(* "Actions Required" tables (1618-1697) and the Report Assembler          *)
(* (generate_multiple_tables_email 1383-1477).  The assemblers of          *)
(* dogfooding_mail.py (337-400) and leads_mail.py (267-322) take the       *)
(* tables as the query loop left them.                                     *)
(* tables_data is a sequence of [heading, data]; a heading is a string of  *)
(* characters.                                                             *)
(***************************************************************************)
TableEntry(heading, data) == [heading |-> heading, data |-> data]

SummaryHeading == Chars("Summary Comparison")
CoachHeading == Chars("Coach +App User analytics")
GlpHeading == Chars("GLP User analytics")
FullHeading == Chars("Full Analytics")

\* str(value)
Str(value) == IF value = NoneValue THEN Chars("None") ELSE value

\* _normalize_name (956-960)
normalize_name(value) ==
    IF value = NoneValue THEN NoneValue
    ELSE IF LowerStr(Strip(value)) = <<>> THEN NoneValue ELSE LowerStr(Strip(value))

\* An entry of sheet_lookup: the first GLP dose cell and the three reason
\* cells of the patient's row, None for a column the sheet lacks.
SheetRow(glp_dose, onboarding, meal, weight) ==
    [present |-> TRUE, glp_dose |-> glp_dose,
     onboarding |-> onboarding, meal |-> meal, weight |-> weight]

\* lookup.get(normalized_name), None for a name that is no key
LookupGet(lookup, name) == IF name \in DOMAIN lookup THEN lookup[name] ELSE NoEntry

\* _get_sheet_value (982-985) for the three reason columns
GetSheetReason(entry, column_name) ==
    IF ~entry.present THEN NoneValue
    ELSE CASE column_name = "Not onboarding reason" -> entry.onboarding
           [] column_name = "Meal logging reason" -> entry.meal
           [] column_name = "Weight logging reason" -> entry.weight

\* The rows of tables_data under a heading, of the last table that bears it.
DataOf(tables, heading, default) ==
    LET at == { i \in 1..Len(tables) : tables[i].heading = heading }
    IN IF at = {} THEN default
       ELSE tables[CHOOSE i \in at : \A j \in at : j <= i].data

\* A cell of a "Full Analytics" row as parse_float sees it.
CellOf(value) ==
    IF value = NoneValue THEN Missing
    ELSE IF to_float(Strip(value)).ok THEN Num(to_float(Strip(value)).v) ELSE Text

\* build_full_analytics_lookup (1023-1033) and analytics_lookup.get: the last
\* "Full Analytics" row with that normalized name.
AnalyticsLookupGet(tables, name) ==
    LET rows == DataOf(tables, FullHeading, <<>>)
        at == { i \in 1..Len(rows) :
                   normalize_name(Get(rows[i], "Patient Name", NoneValue)) = name }
    IN IF name = NoneValue \/ at = {} THEN NoEntry
       ELSE LET row == rows[CHOOSE i \in at : \A j \in at : j <= i]
            IN AnalyticsEntry(CellOf(Get(row, "Start Weight", NoneValue)),
                              CellOf(Get(row, "Goal Weight", NoneValue)),
                              CellOf(Get(row, "Current Weight", NoneValue)),
                              CellOf(Get(row, "Current Weight Lose", NoneValue)))

\* cell_classes = row.setdefault("__cell_classes__", {}); cell_classes[col] = ...
TagCell(row, col) ==
    SetKey(row, "__cell_classes__",
           [c \in DOMAIN ClassesOf(row) \cup {col} |->
               IF c = col THEN BlueCell ELSE ClassesOf(row)[c]])

\* Variant: the value of the cell is not looked at.
ShouldReplaceAnyValue(value, reason) == reason # NoneValue /\ reason # <<>>

\* The cell reads "no" and the sheet gives a reason that is not empty.
ShouldReplace(value, reason) ==
    /\ reason # NoneValue /\ reason # <<>>
    /\ LowerStr(Strip(Str(value))) = Chars("no")

\* update_logging_reason (1186-1205); lines 1059-1064 do the same for
\* "User Onboarded".
update_logging_reason(row, column_name, sheet_entry, sheet_column) ==
    LET reason == GetSheetReason(sheet_entry, sheet_column)
    IN IF ShouldReplace(Get(row, column_name, <<>>), reason)
       THEN TagCell(SetKey(row, column_name, reason), column_name)
       ELSE row

\* The loop body of annotate_tables_with_sheet_data for one row.
AnnotateRow(row, sheet_lookup, tables) ==
    LET normalized_name == normalize_name(Get(row, "Patient Name", NoneValue))
        sheet_entry == LookupGet(sheet_lookup, normalized_name)
        analytics_entry == AnalyticsLookupGet(tables, normalized_name)
        onboarded == update_logging_reason(row, "User Onboarded", sheet_entry,
                                           "Not onboarding reason")
        status == SetKey(onboarded, "OnTrack/OffTrack",
                         Chars(compute_progress_status(sheet_entry, analytics_entry)))
        meal == update_logging_reason(status, "Meal Log (3 days)", sheet_entry,
                                      "Meal logging reason")
    IN update_logging_reason(meal, "Weight Log (7 days)", sheet_entry,
                             "Weight logging reason")

\* is_coach or is_glp
IsAnnotatedTable(heading) == heading \in {CoachHeading, GlpHeading}

annotate_tables_with_sheet_data(tables, sheet_lookup) ==
    [t \in 1..Len(tables) |->
        IF IsAnnotatedTable(tables[t].heading)
        THEN TableEntry(tables[t].heading,
                        [r \in 1..Len(tables[t].data) |->
                            AnnotateRow(tables[t].data[r], sheet_lookup, tables)])
        ELSE tables[t]]
\* str(count) of a count
CountText(n) ==
    IF n < 10 THEN <<ToString(n)>> ELSE <<ToString(n \div 10), ToString(n % 10)>>

\* Variant: "Data Incomplete" counts as on track too.
OnTrackCountWithIncomplete(data) ==
    Cardinality({ i \in 1..Len(data) :
                     Strip(Str(Get(data[i], "OnTrack/OffTrack", <<>>)))
                        \in {Chars("On Track"), Chars("Data Incomplete")} })

\* The rows whose status, stripped, is "On Track" (1115-1132); every other
\* row counts as off track.
OnTrackCount(data) ==
    Cardinality({ i \in 1..Len(data) :
                     Strip(Str(Get(data[i], "OnTrack/OffTrack", <<>>))) = Chars("On Track") })

\* update_summary_with_detailed_track_counts (1089-1145)
update_summary_with_detailed_track_counts(tables) ==
    LET summary_data == DataOf(tables, SummaryHeading, <<>>)
        coach_app_data == DataOf(tables, CoachHeading, <<>>)
        glp_data == DataOf(tables, GlpHeading, <<>>)
        Counts(row, coach, glp) ==
            SetKey(SetKey(row, "Coach + App (vs Yesterday)", CountText(coach)),
                   "GLP (vs Yesterday)", CountText(glp))
        Updated(row) ==
            CASE Get(row, "Metric", <<>>) = Chars("Num On Track Users") ->
                    Counts(row, OnTrackCount(coach_app_data), OnTrackCount(glp_data))
              [] Get(row, "Metric", <<>>) = Chars("Num Off Track Users") ->
                    Counts(row, Len(coach_app_data) - OnTrackCount(coach_app_data),
                           Len(glp_data) - OnTrackCount(glp_data))
              [] OTHER -> row
    IN IF summary_data = <<>> \/ coach_app_data = <<>> \/ glp_data = <<>> THEN tables
       ELSE [t \in 1..Len(tables) |->
                IF tables[t].heading = SummaryHeading
                THEN TableEntry(SummaryHeading,
                                [r \in 1..Len(summary_data) |-> Updated(summary_data[r])])
                ELSE tables[t]]

\* The order of Python's str comparison: by code point, a prefix first.
AsciiOrder ==
    Chars(" !#$%&()*+,-./0123456789:;<=>?@ABCDEFGHIJKLMNOPQRSTUVWXYZ[]^_abcdefghijklmnopqrstuvwxyz{|}~")

Ord(c) == CHOOSE i \in 1..Len(AsciiOrder) : AsciiOrder[i] = c

RECURSIVE StrLess(_, _)
StrLess(a, b) ==
    IF a = <<>> THEN b # <<>>
    ELSE IF b = <<>> THEN FALSE
    ELSE IF Head(a) = Head(b) THEN StrLess(Tail(a), Tail(b))
    ELSE Ord(Head(a)) < Ord(Head(b))

\* sorted(...) of a list of strings
RECURSIVE Sorted(_)
Sorted(s) ==
    IF s = <<>> THEN <<>>
    ELSE LET i == CHOOSE i \in 1..Len(s) : \A j \in 1..Len(s) : ~StrLess(s[j], s[i])
         IN <<s[i]>> \o Sorted(SubSeq(s, 1, i - 1) \o SubSeq(s, i + 1, Len(s)))

\* sep.join(parts)
RECURSIVE Join(_, _)
Join(parts, sep) ==
    IF parts = <<>> THEN <<>>
    ELSE IF Len(parts) = 1 THEN parts[1]
    ELSE parts[1] \o sep \o Join(Tail(parts), sep)

\* The rows of the two detail tables, Coach +App first (1619-1627).
AllPatientsData(tables) ==
    DataOf(tables, CoachHeading, <<>>) \o DataOf(tables, GlpHeading, <<>>)

ConsultantOf(row) == Get(row, "Consultant Name", Chars("Unknown Consultant"))

\* The keys of an actions_map, in the order of the dict literal (1640-1645).
ActionNames ==
    <<"User Not Onboarded", "Meal Logging", "Weight Logging", "No Interaction (2+ days)">>

\* The column an action reads.
ActionColumn(action) ==
    CASE action = "User Not Onboarded" -> "User Onboarded"
      [] action = "Meal Logging" -> "Meal Log (3 days)"
      [] action = "Weight Logging" -> "Weight Log (7 days)"
      [] action = "No Interaction (2+ days)" -> "Days Since Last Interaction"

\* row.get(col, "").strip() of a value that is None raises AttributeError
\* (1648-1657); nothing in send_report_email catches it.
ActionsRaise(rows) ==
    \E i \in 1..Len(rows) : \E a \in 1..3 :
        Get(rows[i], ActionColumn(ActionNames[a]), <<>>) = NoneValue

\* The tests of lines 1648-1669 on one row.
NeedsAction(row, action) ==
    IF action = "No Interaction (2+ days)"
    THEN LET days == Get(row, ActionColumn(action), NoneValue)
         IN /\ days # NoneValue
            /\ to_float(Strip(days)).ok
            /\ to_float(Strip(days)).v >= 2
    ELSE LowerStr(Strip(Get(row, ActionColumn(action), <<>>))) = Chars("no")

\* What is appended to the action's list for the row.
PendingText(row, action) ==
    LET patient_name == Str(Get(row, "Patient Name", Chars("Unknown")))
    IN IF action = "No Interaction (2+ days)"
       THEN patient_name \o Chars(" (")
               \o CountText(to_float(Strip(Get(row, ActionColumn(action), <<>>))).v)
               \o Chars(" days)")
       ELSE patient_name

\* actions_data of one consultant (1679-1687): a row per action that has
\* patients pending, the patients sorted and joined.
ActionsData(rows, consultant_name) ==
    LET Patients(action) ==
            LET mine == SelectSeq(rows, LAMBDA row : /\ ConsultantOf(row) = consultant_name
                                                     /\ NeedsAction(row, action))
            IN [i \in 1..Len(mine) |-> PendingText(mine[i], action)]
        pending == SelectSeq(ActionNames, LAMBDA action : Patients(action) # <<>>)
    IN [a \in 1..Len(pending) |->
           <<Pair("Action", Chars(pending[a])),
             Pair("Patients Pending", Join(Sorted(Patients(pending[a])), Chars(", ")))>>]

\* sorted(consultant_actions.items()): the consultants by name.
SortedConsultants(rows) ==
    LET names == { ConsultantOf(rows[i]) : i \in 1..Len(rows) }
    IN CHOOSE s \in [1..Cardinality(names) -> names] :
           \A i, j \in 1..Cardinality(names) : i < j => StrLess(s[i], s[j])

ActionsHeading(consultant_name) == Chars("Actions Required for ") \o Str(consultant_name)

\* The tables of lines 1677-1693, in the order they are inserted.
ActionTables(rows) ==
    LET all == [c \in 1..Len(SortedConsultants(rows)) |->
                   TableEntry(ActionsHeading(SortedConsultants(rows)[c]),
                              ActionsData(rows, SortedConsultants(rows)[c]))]
    IN SelectSeq(all, LAMBDA t : t.data # <<>>)

\* insert_index (1672-1676): behind the first "Summary Comparison", else 1.
InsertIndex(tables) ==
    LET at == { i \in 1..Len(tables) : tables[i].heading = SummaryHeading }
    IN IF at = {} THEN 1 ELSE CHOOSE i \in at : \A j \in at : i <= j

\* tables_data.insert(insert_index + tables_added, ...) for each new table:
\* list.insert puts an index past the end at the end.
InsertTables(tables, new) ==
    LET k == IF InsertIndex(tables) <= Len(tables) THEN InsertIndex(tables) ELSE Len(tables)
    IN SubSeq(tables, 1, k) \o new \o SubSeq(tables, k + 1, Len(tables))

\* if not tables_data or not any(data for _, data in tables_data)
NoTableData(tables) == \A t \in 1..Len(tables) : tables[t].data = <<>>

\* The pieces of the document, in order.
ShellPart == [kind |-> "shell"]
HeaderPart == [kind |-> "header"]
GreetingPart == [kind |-> "greeting"]
ClosingPart == [kind |-> "closing"]
FooterPart == [kind |-> "footer"]
SeparatorPart == [kind |-> "separator"]
HeadingPart(heading) == [kind |-> "heading", text |-> heading]

\* use_formatting of the two scripts that format
UseFormatting(script, heading) ==
    CASE script = "analytics" -> heading \in {CoachHeading, GlpHeading, FullHeading}
      [] script = "dogfooding" -> heading = Chars("Dogfooding Analytics")
      [] OTHER -> FALSE

\* exclude_cols (1454)
ExcludeCols(heading) ==
    IF heading \in {CoachHeading, GlpHeading}
    THEN {"Consultant ID", "Consultant Name", "Subscription Name"} ELSE {}

\* What the loop over the tables appends for one of them.
TableBlock(script, tables, t) ==
    IF script = "leads"
    THEN IF tables[t].data # <<>>
         THEN <<format_data_as_table(tables[t].data, tables[t].heading)>>
                 \o (IF t < Len(tables) THEN <<SeparatorPart>> ELSE <<>>)
         ELSE <<NoDataPlaceholder(Chars("No data available for ") \o tables[t].heading)>>
    ELSE IF tables[t].data # <<>>
         THEN <<HeadingPart(tables[t].heading),
                RenderTable(script, tables[t].data, NoneValue,
                            UseFormatting(script, tables[t].heading),
                            ExcludeCols(tables[t].heading))>>
         ELSE <<>>

\* generate_multiple_tables_email of earlyfit_email_report.py (1383-1477) and
\* dogfooding_mail.py (337-400), generate_email_body of leads_mail.py
\* (267-322).
generate_multiple_tables_email(script, tables) ==
    <<ShellPart, HeaderPart, GreetingPart>>
       \o Concat([t \in 1..Len(tables) |-> TableBlock(script, tables, t)])
       \o <<ClosingPart, FooterPart>>
\* What the queries and the sheet can hand to the report.
SummaryRows ==
    <<<<Pair("Metric", Chars("Num On Track Users")),
        Pair("Coach + App (vs Yesterday)", Chars("7")), Pair("GLP (vs Yesterday)", Chars("7"))>>,
      <<Pair("Metric", Chars("Total Users")),
        Pair("Coach + App (vs Yesterday)", Chars("7")), Pair("GLP (vs Yesterday)", Chars("7"))>>,
      <<Pair("Metric", Chars("Num Off Track Users")),
        Pair("Coach + App (vs Yesterday)", Chars("7")), Pair("GLP (vs Yesterday)", Chars("7"))>>>>

FullRows ==
    <<<<Pair("Patient Name", Chars("Asha")), Pair("Start Weight", Chars("90")),
        Pair("Goal Weight", Chars("60")), Pair("Current Weight", Chars("80"))>>>>

CoachPool ==
    { <<Pair("Patient Name", Chars("Asha")), Pair("Consultant Name", Chars("Zoya")),
        Pair("User Onboarded", Chars("No")), Pair("Meal Log (3 days)", Chars(" no ")),
        Pair("Weight Log (7 days)", Chars("Yes")),
        Pair("Days Since Last Interaction", Chars("5")),
        Pair("OnTrack/OffTrack", Chars("60"))>>,
      <<Pair("Patient Name", Chars(" ASHA ")), Pair("Consultant Name", Chars("R&D")),
        Pair("User Onboarded", Chars("Yes")), Pair("Meal Log (3 days)", Chars("No")),
        Pair("Weight Log (7 days)", Chars("No")),
        Pair("Days Since Last Interaction", Chars("2")),
        Pair("OnTrack/OffTrack", Chars("60"))>>,
      <<Pair("Patient Name", Chars("Bela")), Pair("Consultant Name", Chars("Dr <b>")),
        Pair("User Onboarded", Chars("No")), Pair("Meal Log (3 days)", Chars("Yes")),
        Pair("Weight Log (7 days)", NoneValue),
        Pair("Days Since Last Interaction", NoneValue)>> }

GlpPool ==
    { <<Pair("Patient Name", Chars("Asha")), Pair("Consultant Name", Chars("Zoya")),
        Pair("User Onboarded", Chars("Yes")), Pair("Meal Log (3 days)", Chars("Yes")),
        Pair("Weight Log (7 days)", Chars("No")),
        Pair("Days Since Last Interaction", Chars("0"))>>,
      <<Pair("Patient Name", Chars("Bela")), Pair("Subscription Name", Chars("R&D")),
        Pair("User Onboarded", Chars("no")), Pair("Meal Log (3 days)", Chars("Yes")),
        Pair("Weight Log (7 days)", Chars("No")),
        Pair("Days Since Last Interaction", Chars("3"))>> }

\* sheet_lookup: the sheet's rows by normalized patient name.
SheetLookups ==
    { [n \in {} |-> NoEntry],
      [n \in {Chars("asha")} |->
          SheetRow(Date(60), Chars("R&D"), Chars("Travelling"), <<>>)],
      [n \in {Chars("asha"), Chars("bela")} |->
          IF n = Chars("asha") THEN SheetRow(Date(30), NoneValue, <<>>, Chars("Travelling"))
          ELSE SheetRow(Missing, Chars("Travelling"), Chars("no"), Chars("<b>"))] }

\* One query of the loop (1589-1611): a failed query adds nothing, the others
\* add their heading with the rows returned.
LoopOutcomes(heading, results) ==
    {<<>>} \cup { <<TableEntry(heading, data)>> : data \in results }

\* tables_data at the end of the query loop of the script.
QueriedTables(script) ==
    CASE script = "analytics" ->
            { s \o c \o g \o f :
                s \in LoopOutcomes(SummaryHeading, {<<>>, SummaryRows}),
                c \in LoopOutcomes(CoachHeading, SeqsUpTo(CoachPool, MaxRows)),
                g \in LoopOutcomes(GlpHeading, SeqsUpTo(GlpPool, MaxRows)),
                f \in LoopOutcomes(FullHeading, {FullRows}) }
      [] script = "dogfooding" ->
            LoopOutcomes(Chars("Dogfooding Analytics"),
                          SeqsUpTo({ row \in RowPool : IsPlainRow(row) }, MaxRows))
      [] script = "leads" ->
            { <<TableEntry(Chars("Contact-Me Form leads"), c),
                TableEntry(Chars("New Signups(MDT/App)"), n)>> :
                c \in SeqsUpTo({ row \in RowPool : IsPlainRow(row) }, 1),
                n \in SeqsUpTo({ row \in RowPool : IsPlainRow(row) }, 1) }

\* annotate_tables_with_sheet_data(tables_data, sheet_lookup, analytics_lookup)
AnnotateTables ==
    /\ rp_pc = "annotate"
    /\ rp_tables' = annotate_tables_with_sheet_data(rp_tables, rp_sheet)
    /\ rp_pc' = "summary"
    /\ UNCHANGED <<rp_script, rp_sheet, rp_queried, rp_html, rp_result, notReport>>

\* update_summary_with_detailed_track_counts(tables_data)
UpdateSummary ==
    /\ rp_pc = "summary"
    /\ rp_tables' = update_summary_with_detailed_track_counts(rp_tables)
    /\ rp_pc' = "actions"
    /\ UNCHANGED <<rp_script, rp_sheet, rp_queried, rp_html, rp_result, notReport>>

\* Lines 1618-1697: the "Actions Required" tables.
BuildActionTables ==
    /\ rp_pc = "actions"
    /\ IF AllPatientsData(rp_tables) = <<>>
       THEN /\ rp_pc' = "assemble"
            /\ UNCHANGED <<rp_tables, rp_result>>
       ELSE IF ActionsRaise(AllPatientsData(rp_tables))
       THEN /\ rp_pc' = "done"
            /\ rp_result' = "raised"
            /\ UNCHANGED rp_tables
       ELSE /\ rp_tables' = InsertTables(rp_tables, ActionTables(AllPatientsData(rp_tables)))
            /\ rp_pc' = "assemble"
            /\ UNCHANGED rp_result
    /\ UNCHANGED <<rp_script, rp_sheet, rp_queried, rp_html, notReport>>

\* The check for data (earlyfit_email_report.py 1699, dogfooding_mail.py 501)
\* and the call of the assembler.
AssembleReport ==
    /\ rp_pc = "assemble"
    /\ IF rp_script # "leads" /\ NoTableData(rp_tables)
       THEN /\ rp_result' = "no_data"
            /\ UNCHANGED rp_html
       ELSE /\ rp_html' = generate_multiple_tables_email(rp_script, rp_tables)
            /\ rp_result' = "html"
    /\ rp_pc' = "done"
    /\ UNCHANGED <<rp_script, rp_sheet, rp_queried, rp_tables, notReport>>

ReportNext == AnnotateTables \/ UpdateSummary \/ BuildActionTables \/ AssembleReport

(***************************************************************************)
(* Two invocations of sync_leads in flight at once (scheduled_sync_job,    *)
(* lead_sync_scheduler.py 24-32, calls sync_leads with no lock around it). *)
(* Every name sync_leads assigns is a local of the invocation: each run    *)
(* has a frame of its own.  The CRM webhook is the one thing both runs     *)
(* talk to; ov_posts is the order in which it receives their POSTs.        *)
(***************************************************************************)
Runs == {"first", "second"}

IdleRuns == [run \in Runs |-> "idle"]
NoFrames == [run \in Runs |-> None]
FreshStats == [run \in Runs |-> InitStats]

\* What the new-signups query may answer to a run.
OverlapSignupOutcomes ==
    { QueryRaise, QueryNoSuccess,
      QueryOk(<<SignupRow("9876543210", "Asha", "a@x.in")>>),
      QueryOk(<<SignupRow("9876543210", "Asha", "a@x.in"), SignupRow("12345", "Asha", "")>>),
      QueryOk(<<SignupRow("9123456789", "Asha", "null"), SignupRow("9876543210", "Asha", "a@x.in")>>) }

\* What the active-customers query may answer to a run.
OverlapActiveOutcomes == { QueryNoSuccess, QueryOk({}), QueryOk({Chars("9123456789")}) }

\* What the webhook may answer to one POST.
OverlapCrmOutcomes == { HttpResponse(201), HttpResponse(409), HttpResponse(500) }

\* Variant: stats is one module-level dict, the one the first run created.
SharedStatsFrame(run) == "first"

\* The frame holding the stats dict of an invocation: `stats = {...}` of lines
\* 396-403 binds a local name to a new dict in every call.
StatsFrame(run) == run

\* The trigger fires: sync_leads is entered and builds its stats dict.
OverlapStart(run) ==
    /\ ov_pc[run] = "idle"
    /\ ov_pc' = [ov_pc EXCEPT ![run] = "step1"]
    /\ ov_stats' = [ov_stats EXCEPT ![StatsFrame(run)] = InitStats]
    /\ ov_records' = [ov_records EXCEPT ![run] = <<>>]
    /\ ov_filtered' = [ov_filtered EXCEPT ![run] = <<>>]
    /\ ov_leads' = [ov_leads EXCEPT ![run] = <<>>]
    /\ ov_idx' = [ov_idx EXCEPT ![run] = 1]
    /\ UNCHANGED <<ov_posts, notOverlap>>

\* Step 1 of one run.
OverlapFetchNewSignups(run) ==
    /\ ov_pc[run] = "step1"
    /\ \E out \in OverlapSignupOutcomes :
         LET st == ov_stats[StatsFrame(run)]
         IN /\ ov_stats' = [ov_stats EXCEPT ![StatsFrame(run)] =
                   CASE out.kind = "raise" ->
                            [st EXCEPT !.errors = Append(@, "Unexpected error during sync")]
                     [] out.kind = "nosuccess" ->
                            [st EXCEPT !.errors = Append(@, "External API query failed")]
                     [] out.kind = "ok" -> [st EXCEPT !.total_fetched = Len(out.data)]]
            /\ ov_records' = [ov_records EXCEPT ![run] = IF out.kind = "ok" THEN out.data ELSE @]
            /\ ov_pc' = [ov_pc EXCEPT ![run] = SignupFetchNextPc(out)]
    /\ UNCHANGED <<ov_filtered, ov_leads, ov_idx, ov_posts, notOverlap>>

\* Steps 2 and 3 of one run.
OverlapFetchActiveCustomers(run) ==
    /\ ov_pc[run] = "step2"
    /\ \E out \in OverlapActiveOutcomes :
         LET active == IF out.kind = "ok" THEN ActivePhoneSet(out.data) ELSE {}
             kept == FilterRecords(ov_records[run], active)
             st == ov_stats[StatsFrame(run)]
         IN /\ ov_filtered' = [ov_filtered EXCEPT ![run] = kept]
            /\ ov_stats' = [ov_stats EXCEPT ![StatsFrame(run)] =
                   [st EXCEPT !.active_customers_filtered =
                                  @ + Len(ov_records[run]) - Len(kept)]]
            /\ ov_pc' = [ov_pc EXCEPT ![run] = IF kept = <<>> THEN "returned" ELSE "step4"]
    /\ UNCHANGED <<ov_records, ov_leads, ov_idx, ov_posts, notOverlap>>

\* Step 4 of one run.
OverlapTransformRecords(run) ==
    /\ ov_pc[run] = "step4"
    /\ LET leads == TransformAll(ov_filtered[run])
           valid == SelectSeq(leads, ValidPhone)
       IN /\ ov_leads' = [ov_leads EXCEPT ![run] = valid]
          /\ ov_stats' = [ov_stats EXCEPT ![StatsFrame(run)] =
                 TransformStats(ov_stats[StatsFrame(run)], leads, ov_filtered[run])]
          /\ ov_idx' = [ov_idx EXCEPT ![run] = 1]
          /\ ov_pc' = [ov_pc EXCEPT ![run] = IF valid = <<>> THEN "returned" ELSE "step5"]
    /\ UNCHANGED <<ov_records, ov_filtered, ov_posts, notOverlap>>

\* One pass of the ingestion loop of one run.
OverlapIngestLead(run) ==
    /\ ov_pc[run] = "step5"
    /\ ov_idx[run] <= Len(ov_leads[run])
    /\ \E resp \in OverlapCrmOutcomes :
         /\ ov_posts' = Append(ov_posts, [run |-> run, lead |-> ov_leads[run][ov_idx[run]],
                                          resp |-> resp])
         /\ ov_stats' = [ov_stats EXCEPT ![StatsFrame(run)] =
                IngestStats(ov_stats[StatsFrame(run)], resp)]
         /\ ov_idx' = [ov_idx EXCEPT ![run] = NextLead(@, ingest_lead(resp))]
         /\ ov_pc' = [ov_pc EXCEPT ![run] =
                IF ov_idx'[run] > Len(ov_leads[run]) THEN "returned" ELSE "step5"]
    /\ UNCHANGED <<ov_records, ov_filtered, ov_leads, notOverlap>>

OverlapNext ==
    \E run \in Runs :
        \/ OverlapStart(run)
        \/ OverlapFetchNewSignups(run)
        \/ OverlapFetchActiveCustomers(run)
        \/ OverlapTransformRecords(run)
        \/ OverlapIngestLead(run)

(***************************************************************************)
(* append_to_google_sheet (leads_mail.py 129-196).  The sheet is the list  *)
(* of its rows, a row the list of its cells; values().append adds rows     *)
(* after the last one.                                                     *)
(***************************************************************************)
\* Record lists handed to the function: none, one record, two records of which
\* one has None under the first column and the other lacks it and has a column
\* of its own, and a record with other columns in another order.
SheetDataPool ==
    { <<>>,
      << <<Pair("phone", Chars("9876543210")), Pair("patient_name", Chars("Asha"))>> >>,
      << <<Pair("phone", NoneValue), Pair("patient_name", Chars("Asha"))>>,
         <<Pair("patient_name", Chars("Zoya")), Pair("email", Chars("a@x.in"))>> >>,
      << <<Pair("email", Chars("a@x.in")), Pair("phone", Chars("9123456789"))>> >> }

\* The two API calls of one invocation: both answer, the read raises, or the
\* append raises.
SheetApiOutcomes == {"ok", "get_raised", "append_raised"}

\* result.get('values') of the read of range A1: absent when the cell holds
\* nothing.
A1Values(sheet) ==
    IF sheet = <<>> THEN <<>>
    ELSE IF sheet[1] = <<>> THEN <<>>
    ELSE IF sheet[1][1] = <<>> THEN <<>>
    ELSE << <<sheet[1][1]>> >>

\* Variant: the sheet is always taken to be empty.
SheetAlwaysEmpty(result_values) == TRUE

\* sheet_is_empty = not result.get('values')
SheetIsEmpty(result_values) == result_values = <<>>

\* headers = list(data[0].keys()), as the cells they are written to
Headers(data) == [i \in 1..Len(data[1]) |-> Chars(RowKeys(data[1])[i])]

\* The cell written for a value: "" for None, str(value) otherwise.
SheetCell(value) == IF value = NoneValue THEN <<>> ELSE Str(value)

\* row_values of one record: its value under every column of the first record.
SheetRowValues(row, data) ==
    [i \in 1..Len(data[1]) |-> SheetCell(Get(row, RowKeys(data[1])[i], NoneValue))]

\* The data rows of steps 4.
SheetDataRows(data) == [r \in 1..Len(data) |-> SheetRowValues(data[r], data)]

\* values_to_append: the headers if the sheet is empty, then the data rows.
ValuesToAppend(data, sheet_is_empty) ==
    (IF sheet_is_empty THEN <<Headers(data)>> ELSE <<>>) \o SheetDataRows(data)

\* One call of append_to_google_sheet on the sheet as it stands.
AppendToGoogleSheet ==
    /\ Len(gs_calls) < MaxAppends
    /\ \E data \in SheetDataPool, api \in SheetApiOutcomes :
         LET values == ValuesToAppend(data, SheetIsEmpty(A1Values(gs_sheet)))
             written == data # <<>> /\ api = "ok"
         IN /\ data = <<>> => api = "ok"
            /\ gs_sheet' = IF written THEN gs_sheet \o values ELSE gs_sheet
            /\ gs_result' = (data = <<>> \/ api = "ok")
            /\ gs_calls' = Append(gs_calls, [data |-> data, api |-> api,
                                             before |-> gs_sheet, after |-> gs_sheet',
                                             result |-> gs_result'])
    /\ UNCHANGED notSheet

SheetNext == AppendToGoogleSheet

(***************************************************************************)
(* Specifications: one per program, the others at rest.                    *)
(***************************************************************************)
InitSync ==
    /\ sl_pc = "main" /\ config_ok \in BOOLEAN /\ stats = InitStats
    /\ records = <<>> /\ active_customer_records = {} /\ active_customer_phones = {}
    /\ filtered_records = <<>>
    /\ leads_to_ingest = <<>> /\ idx = 1 /\ queries = <<>> /\ posts = <<>>
    /\ stage_failed = {} /\ exit_code = None
    /\ ph_pc = "idle" /\ ph_in = <<>> /\ ph_out = <<>> /\ ph_out2 = <<>>
    /\ pg_pc = "idle" /\ pg_sheet = NoEntry /\ pg_analytics = NoEntry /\ pg_status = None
    /\ ml_pc = "idle" /\ ml_script = "dogfooding" /\ ml_queries = <<>> /\ tables_data = <<>>
    /\ error_log = <<>> /\ sheets_success = TRUE /\ sheet_appends = <<>> /\ smtp_log = <<>>
    /\ failed_recipients = <<>> /\ notifications = <<>> /\ ml_result = None
    /\ qa_pc = "idle" /\ qa_client = "lead_sync" /\ qa_response = NoResponse /\ qa_result = None
    /\ tb_pc = "idle" /\ tb_script = "analytics" /\ tb_data = <<>> /\ tb_title = <<>>
    /\ tb_formatting = TRUE /\ tb_exclude = {} /\ tb_out = None
    /\ rp_pc = "idle" /\ rp_script = "analytics" /\ rp_sheet = <<>> /\ rp_queried = <<>>
    /\ rp_tables = <<>> /\ rp_html = <<>> /\ rp_result = None
    /\ ov_pc = IdleRuns /\ ov_stats = FreshStats /\ ov_records = NoFrames /\ ov_filtered = NoFrames /\ ov_leads = NoFrames /\ ov_idx = NoFrames /\ ov_posts = <<>>
    /\ gs_sheet = <<>> /\ gs_calls = <<>> /\ gs_result = None

InitPhone ==
    /\ sl_pc = "idle" /\ config_ok = TRUE /\ stats = InitStats
    /\ records = <<>> /\ active_customer_records = {} /\ active_customer_phones = {}
    /\ filtered_records = <<>>
    /\ leads_to_ingest = <<>> /\ idx = 1 /\ queries = <<>> /\ posts = <<>>
    /\ stage_failed = {} /\ exit_code = None
    /\ ph_pc = "input" /\ ph_in \in PhoneInputs /\ ph_out = <<>> /\ ph_out2 = <<>>
    /\ pg_pc = "idle" /\ pg_sheet = NoEntry /\ pg_analytics = NoEntry /\ pg_status = None
    /\ ml_pc = "idle" /\ ml_script = "dogfooding" /\ ml_queries = <<>> /\ tables_data = <<>>
    /\ error_log = <<>> /\ sheets_success = TRUE /\ sheet_appends = <<>> /\ smtp_log = <<>>
    /\ failed_recipients = <<>> /\ notifications = <<>> /\ ml_result = None
    /\ qa_pc = "idle" /\ qa_client = "lead_sync" /\ qa_response = NoResponse /\ qa_result = None
    /\ tb_pc = "idle" /\ tb_script = "analytics" /\ tb_data = <<>> /\ tb_title = <<>>
    /\ tb_formatting = TRUE /\ tb_exclude = {} /\ tb_out = None
    /\ rp_pc = "idle" /\ rp_script = "analytics" /\ rp_sheet = <<>> /\ rp_queried = <<>>
    /\ rp_tables = <<>> /\ rp_html = <<>> /\ rp_result = None
    /\ ov_pc = IdleRuns /\ ov_stats = FreshStats /\ ov_records = NoFrames /\ ov_filtered = NoFrames /\ ov_leads = NoFrames /\ ov_idx = NoFrames /\ ov_posts = <<>>
    /\ gs_sheet = <<>> /\ gs_calls = <<>> /\ gs_result = None

InitProgress ==
    /\ sl_pc = "idle" /\ config_ok = TRUE /\ stats = InitStats
    /\ records = <<>> /\ active_customer_records = {} /\ active_customer_phones = {}
    /\ filtered_records = <<>>
    /\ leads_to_ingest = <<>> /\ idx = 1 /\ queries = <<>> /\ posts = <<>>
    /\ stage_failed = {} /\ exit_code = None
    /\ ph_pc = "idle" /\ ph_in = <<>> /\ ph_out = <<>> /\ ph_out2 = <<>>
    /\ pg_pc = "row" /\ pg_sheet \in SheetEntries /\ pg_analytics \in AnalyticsEntries
    /\ pg_status = None
    /\ ml_pc = "idle" /\ ml_script = "dogfooding" /\ ml_queries = <<>> /\ tables_data = <<>>
    /\ error_log = <<>> /\ sheets_success = TRUE /\ sheet_appends = <<>> /\ smtp_log = <<>>
    /\ failed_recipients = <<>> /\ notifications = <<>> /\ ml_result = None
    /\ qa_pc = "idle" /\ qa_client = "lead_sync" /\ qa_response = NoResponse /\ qa_result = None
    /\ tb_pc = "idle" /\ tb_script = "analytics" /\ tb_data = <<>> /\ tb_title = <<>>
    /\ tb_formatting = TRUE /\ tb_exclude = {} /\ tb_out = None
    /\ rp_pc = "idle" /\ rp_script = "analytics" /\ rp_sheet = <<>> /\ rp_queried = <<>>
    /\ rp_tables = <<>> /\ rp_html = <<>> /\ rp_result = None
    /\ ov_pc = IdleRuns /\ ov_stats = FreshStats /\ ov_records = NoFrames /\ ov_filtered = NoFrames /\ ov_leads = NoFrames /\ ov_idx = NoFrames /\ ov_posts = <<>>
    /\ gs_sheet = <<>> /\ gs_calls = <<>> /\ gs_result = None

InitMail ==
    /\ sl_pc = "idle" /\ config_ok = TRUE /\ stats = InitStats
    /\ records = <<>> /\ active_customer_records = {} /\ active_customer_phones = {}
    /\ filtered_records = <<>>
    /\ leads_to_ingest = <<>> /\ idx = 1 /\ queries = <<>> /\ posts = <<>>
    /\ stage_failed = {} /\ exit_code = None
    /\ ph_pc = "idle" /\ ph_in = <<>> /\ ph_out = <<>> /\ ph_out2 = <<>>
    /\ pg_pc = "idle" /\ pg_sheet = NoEntry /\ pg_analytics = NoEntry /\ pg_status = None
    /\ ml_pc = "query" /\ ml_script \in Scripts /\ ml_queries = <<>> /\ tables_data = <<>>
    /\ error_log = <<>> /\ sheets_success = TRUE /\ sheet_appends = <<>> /\ smtp_log = <<>>
    /\ failed_recipients = <<>> /\ notifications = <<>> /\ ml_result = None
    /\ qa_pc = "idle" /\ qa_client = "lead_sync" /\ qa_response = NoResponse /\ qa_result = None
    /\ tb_pc = "idle" /\ tb_script = "analytics" /\ tb_data = <<>> /\ tb_title = <<>>
    /\ tb_formatting = TRUE /\ tb_exclude = {} /\ tb_out = None
    /\ rp_pc = "idle" /\ rp_script = "analytics" /\ rp_sheet = <<>> /\ rp_queried = <<>>
    /\ rp_tables = <<>> /\ rp_html = <<>> /\ rp_result = None
    /\ ov_pc = IdleRuns /\ ov_stats = FreshStats /\ ov_records = NoFrames /\ ov_filtered = NoFrames /\ ov_leads = NoFrames /\ ov_idx = NoFrames /\ ov_posts = <<>>
    /\ gs_sheet = <<>> /\ gs_calls = <<>> /\ gs_result = None

InitQuery ==
    /\ sl_pc = "idle" /\ config_ok = TRUE /\ stats = InitStats
    /\ records = <<>> /\ active_customer_records = {} /\ active_customer_phones = {}
    /\ filtered_records = <<>>
    /\ leads_to_ingest = <<>> /\ idx = 1 /\ queries = <<>> /\ posts = <<>>
    /\ stage_failed = {} /\ exit_code = None
    /\ ph_pc = "idle" /\ ph_in = <<>> /\ ph_out = <<>> /\ ph_out2 = <<>>
    /\ pg_pc = "idle" /\ pg_sheet = NoEntry /\ pg_analytics = NoEntry /\ pg_status = None
    /\ ml_pc = "idle" /\ ml_script = "dogfooding" /\ ml_queries = <<>> /\ tables_data = <<>>
    /\ error_log = <<>> /\ sheets_success = TRUE /\ sheet_appends = <<>> /\ smtp_log = <<>>
    /\ failed_recipients = <<>> /\ notifications = <<>> /\ ml_result = None
    /\ qa_pc = "call" /\ qa_client \in Clients /\ qa_response \in EndpointResponses
    /\ qa_result = None
    /\ tb_pc = "idle" /\ tb_script = "analytics" /\ tb_data = <<>> /\ tb_title = <<>>
    /\ tb_formatting = TRUE /\ tb_exclude = {} /\ tb_out = None
    /\ rp_pc = "idle" /\ rp_script = "analytics" /\ rp_sheet = <<>> /\ rp_queried = <<>>
    /\ rp_tables = <<>> /\ rp_html = <<>> /\ rp_result = None
    /\ ov_pc = IdleRuns /\ ov_stats = FreshStats /\ ov_records = NoFrames /\ ov_filtered = NoFrames /\ ov_leads = NoFrames /\ ov_idx = NoFrames /\ ov_posts = <<>>
    /\ gs_sheet = <<>> /\ gs_calls = <<>> /\ gs_result = None

InitTable ==
    /\ sl_pc = "idle" /\ config_ok = TRUE /\ stats = InitStats
    /\ records = <<>> /\ active_customer_records = {} /\ active_customer_phones = {}
    /\ filtered_records = <<>>
    /\ leads_to_ingest = <<>> /\ idx = 1 /\ queries = <<>> /\ posts = <<>>
    /\ stage_failed = {} /\ exit_code = None
    /\ ph_pc = "idle" /\ ph_in = <<>> /\ ph_out = <<>> /\ ph_out2 = <<>>
    /\ pg_pc = "idle" /\ pg_sheet = NoEntry /\ pg_analytics = NoEntry /\ pg_status = None
    /\ ml_pc = "idle" /\ ml_script = "dogfooding" /\ ml_queries = <<>> /\ tables_data = <<>>
    /\ error_log = <<>> /\ sheets_success = TRUE /\ sheet_appends = <<>> /\ smtp_log = <<>>
    /\ failed_recipients = <<>> /\ notifications = <<>> /\ ml_result = None
    /\ qa_pc = "idle" /\ qa_client = "lead_sync" /\ qa_response = NoResponse /\ qa_result = None
    /\ tb_pc = "call" /\ tb_script \in Scripts /\ tb_data \in Tables(tb_script) /\ tb_title \in Titles
    /\ tb_formatting \in BOOLEAN /\ tb_exclude \in ExcludeLists /\ tb_out = None
    /\ rp_pc = "idle" /\ rp_script = "analytics" /\ rp_sheet = <<>> /\ rp_queried = <<>>
    /\ rp_tables = <<>> /\ rp_html = <<>> /\ rp_result = None
    /\ ov_pc = IdleRuns /\ ov_stats = FreshStats /\ ov_records = NoFrames /\ ov_filtered = NoFrames /\ ov_leads = NoFrames /\ ov_idx = NoFrames /\ ov_posts = <<>>
    /\ gs_sheet = <<>> /\ gs_calls = <<>> /\ gs_result = None

\* The report starts where the query loop ends; only earlyfit_email_report.py
\* annotates and adds tables before it assembles.
InitReport ==
    /\ sl_pc = "idle" /\ config_ok = TRUE /\ stats = InitStats
    /\ records = <<>> /\ active_customer_records = {} /\ active_customer_phones = {}
    /\ filtered_records = <<>>
    /\ leads_to_ingest = <<>> /\ idx = 1 /\ queries = <<>> /\ posts = <<>>
    /\ stage_failed = {} /\ exit_code = None
    /\ ph_pc = "idle" /\ ph_in = <<>> /\ ph_out = <<>> /\ ph_out2 = <<>>
    /\ pg_pc = "idle" /\ pg_sheet = NoEntry /\ pg_analytics = NoEntry /\ pg_status = None
    /\ ml_pc = "idle" /\ ml_script = "dogfooding" /\ ml_queries = <<>> /\ tables_data = <<>>
    /\ error_log = <<>> /\ sheets_success = TRUE /\ sheet_appends = <<>> /\ smtp_log = <<>>
    /\ failed_recipients = <<>> /\ notifications = <<>> /\ ml_result = None
    /\ qa_pc = "idle" /\ qa_client = "lead_sync" /\ qa_response = NoResponse /\ qa_result = None
    /\ tb_pc = "idle" /\ tb_script = "analytics" /\ tb_data = <<>> /\ tb_title = <<>>
    /\ tb_formatting = TRUE /\ tb_exclude = {} /\ tb_out = None
    /\ rp_script \in Scripts
    /\ rp_pc = (IF rp_script = "analytics" THEN "annotate" ELSE "assemble")
    /\ rp_sheet \in (IF rp_script = "analytics" THEN SheetLookups ELSE {[n \in {} |-> NoEntry]})
    /\ rp_queried \in QueriedTables(rp_script) /\ rp_tables = rp_queried
    /\ rp_html = <<>> /\ rp_result = None
    /\ ov_pc = IdleRuns /\ ov_stats = FreshStats /\ ov_records = NoFrames /\ ov_filtered = NoFrames /\ ov_leads = NoFrames /\ ov_idx = NoFrames /\ ov_posts = <<>>
    /\ gs_sheet = <<>> /\ gs_calls = <<>> /\ gs_result = None

InitOverlap ==
    /\ sl_pc = "idle" /\ config_ok = TRUE /\ stats = InitStats
    /\ records = <<>> /\ active_customer_records = {} /\ active_customer_phones = {}
    /\ filtered_records = <<>>
    /\ leads_to_ingest = <<>> /\ idx = 1 /\ queries = <<>> /\ posts = <<>>
    /\ stage_failed = {} /\ exit_code = None
    /\ ph_pc = "idle" /\ ph_in = <<>> /\ ph_out = <<>> /\ ph_out2 = <<>>
    /\ pg_pc = "idle" /\ pg_sheet = NoEntry /\ pg_analytics = NoEntry /\ pg_status = None
    /\ ml_pc = "idle" /\ ml_script = "dogfooding" /\ ml_queries = <<>> /\ tables_data = <<>>
    /\ error_log = <<>> /\ sheets_success = TRUE /\ sheet_appends = <<>> /\ smtp_log = <<>>
    /\ failed_recipients = <<>> /\ notifications = <<>> /\ ml_result = None
    /\ qa_pc = "idle" /\ qa_client = "lead_sync" /\ qa_response = NoResponse /\ qa_result = None
    /\ tb_pc = "idle" /\ tb_script = "analytics" /\ tb_data = <<>> /\ tb_title = <<>>
    /\ tb_formatting = TRUE /\ tb_exclude = {} /\ tb_out = None
    /\ rp_pc = "idle" /\ rp_script = "analytics" /\ rp_sheet = <<>> /\ rp_queried = <<>>
    /\ rp_tables = <<>> /\ rp_html = <<>> /\ rp_result = None
    /\ ov_pc = IdleRuns /\ ov_stats = FreshStats /\ ov_records = NoFrames /\ ov_filtered = NoFrames /\ ov_leads = NoFrames /\ ov_idx = NoFrames /\ ov_posts = <<>>
    /\ gs_sheet = <<>> /\ gs_calls = <<>> /\ gs_result = None

InitSheet ==
    /\ sl_pc = "idle" /\ config_ok = TRUE /\ stats = InitStats
    /\ records = <<>> /\ active_customer_records = {} /\ active_customer_phones = {}
    /\ filtered_records = <<>>
    /\ leads_to_ingest = <<>> /\ idx = 1 /\ queries = <<>> /\ posts = <<>>
    /\ stage_failed = {} /\ exit_code = None
    /\ ph_pc = "idle" /\ ph_in = <<>> /\ ph_out = <<>> /\ ph_out2 = <<>>
    /\ pg_pc = "idle" /\ pg_sheet = NoEntry /\ pg_analytics = NoEntry /\ pg_status = None
    /\ ml_pc = "idle" /\ ml_script = "dogfooding" /\ ml_queries = <<>> /\ tables_data = <<>>
    /\ error_log = <<>> /\ sheets_success = TRUE /\ sheet_appends = <<>> /\ smtp_log = <<>>
    /\ failed_recipients = <<>> /\ notifications = <<>> /\ ml_result = None
    /\ qa_pc = "idle" /\ qa_client = "lead_sync" /\ qa_response = NoResponse /\ qa_result = None
    /\ tb_pc = "idle" /\ tb_script = "analytics" /\ tb_data = <<>> /\ tb_title = <<>>
    /\ tb_formatting = TRUE /\ tb_exclude = {} /\ tb_out = None
    /\ rp_pc = "idle" /\ rp_script = "analytics" /\ rp_sheet = <<>> /\ rp_queried = <<>>
    /\ rp_tables = <<>> /\ rp_html = <<>> /\ rp_result = None
    /\ ov_pc = IdleRuns /\ ov_stats = FreshStats /\ ov_records = NoFrames /\ ov_filtered = NoFrames /\ ov_leads = NoFrames /\ ov_idx = NoFrames /\ ov_posts = <<>>
    /\ gs_sheet = <<>> /\ gs_calls = <<>> /\ gs_result = None

SpecSync == InitSync /\ [][SyncNext]_vars
SpecPhone == InitPhone /\ [][PhoneNext]_vars
SpecProgress == InitProgress /\ [][ProgressNext]_vars
SpecMail == InitMail /\ [][MailNext]_vars
SpecQuery == InitQuery /\ [][QueryNext]_vars
SpecTable == InitTable /\ [][TableNext]_vars
SpecReport == InitReport /\ [][ReportNext]_vars
SpecOverlap == InitOverlap /\ [][OverlapNext]_vars
SpecSheet == InitSheet /\ [][SheetNext]_vars

(***************************************************************************)
(* Properties of the lead sync job.                                        *)
(***************************************************************************)
PostRaised(p) == ingest_lead(p.resp).raised

CountPosts(Test(_)) == Cardinality({ i \in 1..Len(posts) : Test(posts[i]) })

\* Records the TRANSFORM stage rejected, once that stage has run.
TransformFailures == Len(filtered_records) - Len(leads_to_ingest)

Answered409(p) == p.resp = HttpResponse(409)

\* C1: every lead whose webhook POST is answered with HTTP 409 is counted in
\* already_exists and adds nothing to failed or to errors: already_exists is
\* the number of POSTs answered 409, and failed and errors hold the records
\* rejected by the transform plus the POSTs that failed otherwise.
C1_Conflict409CountsAsExisting ==
    posts # <<>> =>
        /\ stats.already_exists = CountPosts(Answered409)
        /\ stats.failed = TransformFailures
                            + CountPosts(LAMBDA p : PostRaised(p) /\ ~Answered409(p))
        /\ Len(stats.errors) = stats.failed

\* C2: in the ingestion stage every lead of leads_to_ingest is POSTed exactly
\* once, in list order, whatever the earlier leads' outcomes were; the POSTs so
\* far are always the first leads of the list, a returned run has POSTed all of
\* them, and each failed POST added one to failed and one error string.
C2_EveryLeadPostedOnceInOrder ==
    /\ Len(posts) <= Len(leads_to_ingest)
    /\ \A i \in 1..Len(posts) : posts[i].lead = leads_to_ingest[i]
    /\ sl_pc = "step5" => Len(posts) = idx - 1
    /\ sl_pc \in {"returned", "exited"} => Len(posts) = Len(leads_to_ingest)
    /\ posts # <<>> =>
          /\ stats.failed = TransformFailures + CountPosts(PostRaised)
          /\ Len(stats.errors) = stats.failed

\* C2 witness: the first of two leads failed with HTTP 500 and the second was
\* still POSTed, successfully.
C2_Witness ==
    /\ sl_pc = "returned"
    /\ Len(posts) = 2
    /\ posts[1].resp = HttpResponse(500)
    /\ posts[2].resp = HttpResponse(201)
    /\ stats.failed = 1 /\ stats.total_ingested = 1

\* C8: a failure of any stage shows in the returned statistics: once a stage
\* has failed, the returned stats hold an error entry or a non-zero failed.
C8_EveryStageFailureRecorded ==
    (sl_pc = "returned" /\ stage_failed # {}) =>
        (stats.errors # <<>> \/ stats.failed > 0)

\* C9: when the new-signups fetch fails the run returns at once: the
\* active-customers query is never issued, nothing is POSTed, every counter is
\* 0 and errors holds exactly one entry.
C9_SignupFetchFailureAborts ==
    "FETCH_NEW_SIGNUPS" \in stage_failed =>
        /\ sl_pc \in {"returned", "exited"}
        /\ queries = <<"NEW_SIGNUPS_QUERY">>
        /\ posts = <<>>
        /\ stats.total_fetched = 0 /\ stats.active_customers_filtered = 0
        /\ stats.total_ingested = 0 /\ stats.already_exists = 0 /\ stats.failed = 0
        /\ Len(stats.errors) = 1

\* C9 witness: the query answered with a non-success envelope and the run
\* has returned.
C9_Witness ==
    /\ sl_pc = "returned"
    /\ "FETCH_NEW_SIGNUPS" \in stage_failed
    /\ stats.errors = <<"External API query failed">>

\* C10: the process exits 1 whenever the run recorded a failure (failed > 0
\* or a non-empty errors list) and 0 whenever it completed with failed = 0
\* and no recorded error.
C10_ExitCodeReflectsFailure ==
    (sl_pc = "exited" /\ config_ok) =>
        /\ (stats.failed > 0 \/ stats.errors # <<>>) => exit_code = 1
        /\ (stats.failed = 0 /\ stats.errors = <<>>) => exit_code = 0

\* The active-customers query has been answered with a success envelope.
ActiveQuerySucceeded ==
    /\ Len(queries) = 2
    /\ "FETCH_ACTIVE_CUSTOMERS" \notin stage_failed

\* The signup's normalized phone is the normalized phone of a returned active
\* customer (one that has a phone).
IsActiveCustomer(record) ==
    \E p \in active_customer_records :
        p # <<>> /\ normalize_phone_number(p) = normalize_phone_number(record.phone)

PayloadKeys == {"phone_number", "name", "email", "source", "sub_source", "status", "notes"}

DigitsOnly(str) == \A i \in 1..Len(str) : str[i] \in Digits

\* The TRANSFORM stage has run over filtered_records.
TransformDone == sl_pc \in {"step5", "returned", "exited"}

\* The record's phone holds fewer than 10 digits.
FailsPhoneCheck(record) == Len(SelectSeq(record.phone, IsDigit)) < 10

\* C13: every POSTed payload holds phone_number, a digits-only string of at
\* least 10 digits; holds no null value (an absent name or email, and an email
\* equal to 'null', are dropped); uses only the seven payload keys; carries the
\* fixed source, sub_source and status; and the records failing the phone check
\* are counted in failed and never POSTed.
C13_PostedPayloadWellFormed ==
    /\ \A i \in 1..Len(posts) :
          LET lead == posts[i].lead
          IN /\ "phone_number" \in DOMAIN lead
             /\ Len(lead.phone_number) >= 10 /\ DigitsOnly(lead.phone_number)
             /\ DOMAIN lead \subseteq PayloadKeys
             /\ "name" \in DOMAIN lead => lead.name # <<>>
             /\ "email" \in DOMAIN lead =>
                    /\ lead.email # <<>>
                    /\ lead.email \notin {Chars("null"), Chars("NULL")}
             /\ {"source", "sub_source", "status"} \subseteq DOMAIN lead
             /\ lead.source = "MDT App Signup"
             /\ lead.sub_source = "Daily Sync"
             /\ lead.status = "New"
    /\ TransformDone =>
          LET rejected == { j \in 1..Len(filtered_records) : FailsPhoneCheck(filtered_records[j]) }
          IN /\ stats.failed = Cardinality(rejected) + CountPosts(PostRaised)
             /\ Len(leads_to_ingest) = Len(filtered_records) - Cardinality(rejected)
             /\ Len(posts) <= Len(leads_to_ingest)

\* C13 witness: a signup with a country code, no name and the email 'NULL' was
\* POSTed with phone_number and the fixed fields only, and a signup with a
\* five-digit phone was counted in failed and not POSTed.
C13_Witness ==
    /\ sl_pc = "returned"
    /\ Len(filtered_records) = 2
    /\ filtered_records[1].phone = Chars("+919876543210")
    /\ filtered_records[2].phone = Chars("12345")
    /\ Len(posts) = 1
    /\ DOMAIN posts[1].lead = {"phone_number", "source", "sub_source", "status", "notes"}
    /\ posts[1].resp = HttpResponse(201)
    /\ stats.failed = 1 /\ stats.total_ingested = 1

(***************************************************************************)
(* Properties of the mailers.                                              *)
(***************************************************************************)
LoginSucceeded == \E i \in 1..Len(smtp_log) :
                      smtp_log[i].cmd = "login" /\ smtp_log[i].outcome = "ok"

LoginFailed == \E i \in 1..Len(smtp_log) :
                   smtp_log[i].cmd = "login" /\ smtp_log[i].outcome # "ok"

QuitSucceeded == \E i \in 1..Len(smtp_log) : smtp_log[i].cmd = "quit" /\ smtp_log[i].ok

\* The addresses a send was attempted to, in order.
Attempted == [i \in 1..Len(SendAttempts(smtp_log)) |-> SendAttempts(smtp_log)[i].to]

\* The addresses whose send raised, in order.
Refused == LET bad == SelectSeq(SendAttempts(smtp_log), LAMBDA e : ~e.ok)
           IN [i \in 1..Len(bad) |-> bad[i].to]

\* While the recipient loop runs, the attempts are the first addresses of
\* RECIPIENTS, in order, and failed_recipients are those whose send raised.
SendsInListOrder ==
    /\ Len(Attempted) <= Len(RECIPIENTS)
    /\ \A i \in 1..Len(Attempted) : Attempted[i] = RECIPIENTS[i]
    /\ failed_recipients = Refused

\* C3 as stated: after a successful login every address of RECIPIENTS gets a
\* send attempt, in list order, and the function reports success if and only
\* if failed_recipients is empty.
C3_SuccessIffNoFailedRecipient ==
    /\ LoginSucceeded => SendsInListOrder
    /\ (ml_pc = "done" /\ LoginSucceeded) =>
          /\ Attempted = RECIPIENTS
          /\ (ml_result = TRUE) <=> (failed_recipients = <<>>)

\* C3 amended: after a successful login every address of RECIPIENTS gets a
\* send attempt, in list order, even if earlier sends raised, and the function
\* reports success if and only if failed_recipients is empty and the closing
\* server.quit() did not raise.
C3_SuccessIffNoFailedRecipientAndQuit ==
    /\ LoginSucceeded => SendsInListOrder
    /\ (ml_pc = "done" /\ LoginSucceeded) =>
          /\ Attempted = RECIPIENTS
          /\ (ml_result = TRUE) <=> (failed_recipients = <<>> /\ QuitSucceeded)

\* C3 witness: two of the recipients' sends raised, all were attempted, and
\* the function returned False.
C3_Witness ==
    /\ ml_pc = "done"
    /\ LoginSucceeded /\ QuitSucceeded
    /\ Attempted = RECIPIENTS
    /\ Len(failed_recipients) = 2
    /\ failed_recipients[1] = RECIPIENTS[1]
    /\ ml_result = FALSE

\* C4: when server.login fails the send is aborted: no message is sent to any
\* address of RECIPIENTS and send_report_email returns False.
C4_LoginFailureAborts ==
    LoginFailed =>
        /\ ml_pc = "done"
        /\ ml_result = FALSE
        /\ SendAttempts(smtp_log) = <<>>

\* C4 witness: login raised SMTPAuthenticationError and the function returned.
C4_Witness ==
    /\ ml_pc = "done"
    /\ smtp_log = <<[cmd |-> "login", outcome |-> "auth_error"]>>
    /\ ml_result = FALSE

(***************************************************************************)
(* Properties of normalize_phone_number.                                   *)
(***************************************************************************)
\* C5: normalize_phone_number is idempotent, and both "+919876543210" and
\* "9876543210" normalize to "9876543210".
C5_NormalizeIdempotent ==
    /\ ph_pc = "twice" => ph_out2 = ph_out
    /\ (ph_pc \in {"once", "twice"}
          /\ ph_in \in {Chars("+919876543210"), Chars("9876543210")})
        => ph_out = Chars("9876543210")

\* C5 witness: an input with a country code and separators that normalization
\* changes, normalized twice.
C5_Witness ==
    /\ ph_pc = "twice"
    /\ ph_in = Chars("+91") \o Chars(" ") \o Chars("9876543210")
    /\ ph_out = Chars("9876543210")
    /\ ph_out2 = ph_out

(***************************************************************************)
(* Properties of compute_progress_status.                                  *)
(***************************************************************************)
IsNum(cell) == cell.kind = "num"

WeightMissing(field) == ~IsNum(field)

\* start weight <= goal weight, both present
TargetNonPositive ==
    /\ IsNum(pg_analytics.start) /\ IsNum(pg_analytics.goal)
    /\ pg_analytics.start.v <= pg_analytics.goal.v

CompleteInputs ==
    /\ pg_analytics.present
    /\ IsNum(pg_analytics.start) /\ IsNum(pg_analytics.goal) /\ IsNum(pg_analytics.current)
    /\ pg_analytics.start.v > pg_analytics.goal.v
    /\ pg_sheet.present /\ pg_sheet.glp_dose.kind = "date"

\* C7: with complete inputs the status is "On Track" exactly when
\* (start - current) >= ((start - goal) / 90) * max(elapsed_days, 0), and
\* "Off Track" otherwise.
C7_OnTrackIffLossMeetsExpected ==
    (pg_pc = "done" /\ CompleteInputs) =>
        LET start == pg_analytics.start.v
            goal == pg_analytics.goal.v
            current == pg_analytics.current.v
            elapsed == pg_sheet.glp_dose.v
            days == IF elapsed < 0 THEN 0 ELSE elapsed
        IN IF 90 * (start - current) >= (start - goal) * days
           THEN pg_status = "On Track"
           ELSE pg_status = "Off Track"

\* C7 witness: the actual loss equals the expected loss after 30 days.
C7_Witness ==
    /\ pg_pc = "done" /\ CompleteInputs
    /\ pg_analytics.start.v = 90 /\ pg_analytics.goal.v = 60 /\ pg_analytics.current.v = 80
    /\ pg_sheet.glp_dose.v = 30
    /\ pg_status = "On Track"

(***************************************************************************)
(* Properties of query_analytics.                                          *)
(***************************************************************************)
QueryTransportFailed == qa_response.transport # "ok"

QueryStatusIsError == qa_response.transport = "ok" /\ qa_response.status >= 400

\* The response arrived with a status below 400 and its body is no success
\* envelope (success false or missing, or no object at all).
QueryNonSuccessEnvelope ==
    /\ qa_response.transport = "ok" /\ qa_response.status < 400
    /\ ~(qa_response.body.kind = "dict" /\ qa_response.body.success = "true")

\* C11 as stated: query_analytics either returns a successful response or
\* raises; it raises when the transport fails, when the HTTP status is an
\* error, and when the endpoint returns a non-success envelope.
C11_RaisesOnNonSuccessEnvelope ==
    qa_pc = "done" =>
        /\ QueryTransportFailed => qa_result.raised
        /\ QueryStatusIsError => qa_result.raised
        /\ QueryNonSuccessEnvelope => qa_result.raised

\* C11 amended: query_analytics raises exactly when the transport fails, the
\* HTTP status is an error or the body is no JSON; in every other case it
\* returns the decoded body as it is, a non-success envelope included.
C11_RaisesOnTransportOrHttpError ==
    qa_pc = "done" =>
        /\ qa_result.raised <=>
              (\/ QueryTransportFailed
               \/ QueryStatusIsError
               \/ qa_response.body.kind = "invalid")
        /\ ~qa_result.raised => qa_result.result = qa_response.body

\* C11 witness: the endpoint answered 200 with success false, and the call
\* returned that envelope.
C11_Witness ==
    /\ qa_pc = "done"
    /\ qa_response = EndpointResponse(200, Envelope("false", 0))
    /\ ~qa_result.raised
    /\ qa_result.result = Envelope("false", 0)

(***************************************************************************)
(* Properties of the table rendering.                                      *)
(***************************************************************************)
\* C14: for an empty row list the rendering function of every script returns
\* its no-data placeholder and does not raise, with conditional formatting
\* and without.
C14_EmptyTableGivesPlaceholder ==
    (tb_pc = "done" /\ tb_data = <<>>) =>
        /\ tb_out.kind = "no_data"
        /\ StartsWith(tb_out.text, Chars("No data available"))

\* C14 witness: earlyfit's renderer called with no row and formatting off.
C14_Witness ==
    /\ tb_pc = "done" /\ tb_script = "analytics"
    /\ tb_data = <<>> /\ ~tb_formatting
    /\ tb_out = NoDataPlaceholder(Chars("No data available"))

\* The character as HTML shows it.
Entity(c) ==
    CASE c = "&" -> Chars("&amp;")
      [] c = "<" -> Chars("&lt;")
      [] c = ">" -> Chars("&gt;")
      [] OTHER -> <<c>>

\* Every character of the value replaced by its entity, once.
EscapedOnce(value) == Concat([i \in 1..Len(value) |-> Entity(value[i])])

\* No '<' or '>' in the text, and every '&' opens one of the three entities.
NoRawMarkup(text) ==
    \A i \in 1..Len(text) :
        /\ text[i] \notin {"<", ">"}
        /\ text[i] = "&" =>
              \E e \in {Chars("&amp;"), Chars("&lt;"), Chars("&gt;")} :
                  /\ i + Len(e) - 1 <= Len(text)
                  /\ SubSeq(text, i, i + Len(e) - 1) = e

\* The columns a rendered table shows.
ShownColumns ==
    IF tb_script = "analytics"
    THEN SelectSeq(RowKeys(tb_data[1]),
                   LAMBDA col : ~(Len(Chars(col)) >= 2 /\ Chars(col)[1] = "_" /\ Chars(col)[2] = "_")
                                /\ col \notin tb_exclude)
    ELSE RowKeys(tb_data[1])

\* The value of a row under a column, "" when the row lacks the key or holds None.
RawValue(row, col) ==
    IF \E i \in 1..Len(row) : row[i].k = col /\ row[i].v # NoneValue
    THEN row[CHOOSE i \in 1..Len(row) : row[i].k = col].v
    ELSE <<>>

\* C15: every body cell holds its row value with each '<', '>' and '&'
\* replaced by '&lt;', '&gt;' and '&amp;', once: no raw character is left and
\* nothing is escaped twice; so for the values the Row Annotator wrote too.
C15_BodyCellsEscapedOnce ==
    (tb_pc = "done" /\ tb_data # <<>>) =>
        /\ tb_out.kind = "table"
        /\ Len(tb_out.body) = Len(tb_data)
        /\ \A r \in 1..Len(tb_out.body) :
              /\ Len(tb_out.body[r]) = Len(ShownColumns)
              /\ \A c \in 1..Len(tb_out.body[r]) :
                    /\ tb_out.body[r][c].text = EscapedOnce(RawValue(tb_data[r], ShownColumns[c]))
                    /\ NoRawMarkup(tb_out.body[r][c].text)

\* C15 witness: the name "O<Reilly> & Sons" is rendered as
\* "O&lt;Reilly&gt; &amp; Sons", next to a reason text "R&D" in a cell the
\* annotator tagged.
C15_Witness ==
    /\ tb_pc = "done" /\ tb_script = "analytics" /\ Len(tb_data) = 2
    /\ Get(tb_data[1], "Patient Name", <<>>) = Chars("O<Reilly> & Sons")
    /\ Get(tb_data[2], "User Onboarded", <<>>) = Chars("R&D")
    /\ tb_out.kind = "table"
    /\ tb_out.body[1][1].text = Chars("O&lt;Reilly&gt; &amp; Sons")
    /\ tb_out.body[2][2].text = <<"R">> \o Chars("&amp;") \o <<"D">>
    /\ tb_out.body[2][2].class = <<BlueCell>>

\* C20: in earlyfit's renderer the header is the key list of the first row
\* less the keys prefixed "__" and less the excluded columns; every body row
\* has one cell per header column, in header order, empty where the row lacks
\* the key; a key of a later row only is not rendered, and no metadata key
\* shows as a column.
C20_ColumnsFromFirstRow ==
    (tb_pc = "done" /\ tb_script = "analytics" /\ tb_data # <<>>) =>
        /\ tb_out.kind = "table"
        /\ tb_out.header = [i \in 1..Len(ShownColumns) |-> Chars(ShownColumns[i])]
        /\ \A i \in 1..Len(tb_out.header) :
              ~StartsWith(tb_out.header[i], <<"_", "_">>)
        /\ Len(tb_out.body) = Len(tb_data)
        /\ \A r \in 1..Len(tb_out.body) :
              /\ Len(tb_out.body[r]) = Len(tb_out.header)
              /\ \A c \in 1..Len(tb_out.body[r]) :
                    LET col == ShownColumns[c]
                    IN IF \E i \in 1..Len(tb_data[r]) : tb_data[r][i].k = col
                       THEN tb_out.body[r][c].text = EscapedOnce(RawValue(tb_data[r], col))
                       ELSE tb_out.body[r][c].text = <<>>

\* C20 witness: the first row holds "__cell_classes__" and two columns, the
\* second row has neither column but others; the table has the two columns
\* and the second body row two empty cells.
C20_Witness ==
    /\ tb_pc = "done" /\ tb_script = "analytics" /\ Len(tb_data) = 2
    /\ RowKeys(tb_data[1]) = <<"__cell_classes__", "Meal Log (3 days)",
                               "Days Since Last Interaction">>
    /\ RowKeys(tb_data[2]) = <<"Patient Name", "User Onboarded", "OnTrack/OffTrack">>
    /\ tb_out.kind = "table"
    /\ tb_out.header = <<Chars("Meal Log (3 days)"), Chars("Days Since Last Interaction")>>
    /\ tb_out.body[2] = <<[class |-> <<>>, text |-> <<>>], [class |-> <<>>, text |-> <<>>]>>

(***************************************************************************)
(* Properties of the report.                                               *)
(***************************************************************************)
\* The report ended with a document.
ReportAssembled == rp_pc = "done" /\ rp_result = "html"

\* C16: every text the document takes from the data is HTML-escaped, not only
\* the body cells: no table heading (such as "Actions Required for <consultant
\* name>"), no table title and no header cell holds a raw '<', '>' or '&'.
C16_HeadingsAndHeadersEscaped ==
    ReportAssembled =>
        \A p \in 1..Len(rp_html) :
            /\ rp_html[p].kind = "heading" => NoRawMarkup(rp_html[p].text)
            /\ rp_html[p].kind = "table" =>
                  /\ rp_html[p].title # NoneValue => NoRawMarkup(rp_html[p].title)
                  /\ \A c \in 1..Len(rp_html[p].header) : NoRawMarkup(rp_html[p].header[c])
                  /\ \A r \in 1..Len(rp_html[p].body) :
                        \A c \in 1..Len(rp_html[p].body[r]) :
                            NoRawMarkup(rp_html[p].body[r][c].text)

\* C17: with conditional formatting on, every cell of the progress-status
\* column whose text contains "off track" is orange; so every "Off Track" the
\* Row Annotator wrote into the Coach +App and GLP tables.
C17_AnnotatedOffTrackIsOrange ==
    (ReportAssembled /\ rp_script = "analytics") =>
        \A p \in 1..(Len(rp_html) - 1) :
            (rp_html[p].kind = "heading" /\ rp_html[p].text \in {CoachHeading, GlpHeading}) =>
                LET data == DataOf(rp_tables, rp_html[p].text, <<>>)
                    columns == Columns(data, ExcludeCols(rp_html[p].text))
                IN \A r \in 1..Len(data) : \A c \in 1..Len(columns) :
                       (/\ columns[c] \in {"OnTrack/OffTrack", "On/Off Track"}
                        /\ Contains(LowerStr(Str(Get(data[r], columns[c], <<>>))),
                                    Chars("off track")))
                       => \E k \in 1..Len(rp_html[p + 1].body[r][c].class) :
                              rp_html[p + 1].body[r][c].class[k] = "bg-orange"

\* The three columns the annotator may rewrite, each with its reason column.
ReasonColumns ==
    { <<"User Onboarded", "Not onboarding reason">>,
      <<"Meal Log (3 days)", "Meal logging reason">>,
      <<"Weight Log (7 days)", "Weight logging reason">> }

\* The reason text the sheet holds for the patient of the row: the empty text
\* when no sheet row bears the name, trimmed and in lower case, when the sheet
\* lacks the column, or when the cell is empty.
SheetReasonFor(row, sheet_column) ==
    LET names == { n \in DOMAIN rp_sheet :
                      /\ HasKey(row, "Patient Name")
                      /\ Get(row, "Patient Name", <<>>) # NoneValue
                      /\ n = LowerStr(Strip(Get(row, "Patient Name", <<>>))) }
    IN IF names = {} THEN <<>>
       ELSE LET entry == rp_sheet[CHOOSE n \in names : TRUE]
                reason == CASE sheet_column = "Not onboarding reason" -> entry.onboarding
                            [] sheet_column = "Meal logging reason" -> entry.meal
                            [] sheet_column = "Weight logging reason" -> entry.weight
            IN IF reason = NoneValue THEN <<>> ELSE reason

\* The cell reads "No", whatever its case and the blanks around it.
ReadsNo(row, col) ==
    /\ HasKey(row, col)
    /\ Get(row, col, <<>>) # NoneValue
    /\ Strip(Get(row, col, <<>>)) \in {Chars("No"), Chars("no"), <<"N", "O">>, <<"n", "O">>}

\* The tag of the cell, "" for none.
TagOf(row, col) ==
    IF HasKey(row, "__cell_classes__") /\ col \in DOMAIN Get(row, "__cell_classes__", <<>>)
    THEN Get(row, "__cell_classes__", <<>>)[col] ELSE ""

\* C18: the Row Annotator replaces the value of 'User Onboarded', 'Meal Log
\* (3 days)' or 'Weight Log (7 days)' in a row of the Coach +App or GLP table
\* by the sheet's reason, and tags the cell 'cell-blue cell-blue-text',
\* exactly when the value reads "No" and the sheet row of the patient has a
\* reason that is not empty; every other value and tag of the three columns
\* stays as it was, and no row of another table changes.
C18_ReasonReplacesNoOnly ==
    rp_pc = "summary" =>
        /\ Len(rp_tables) = Len(rp_queried)
        /\ \A t \in 1..Len(rp_tables) :
              /\ rp_tables[t].heading = rp_queried[t].heading
              /\ Len(rp_tables[t].data) = Len(rp_queried[t].data)
              /\ rp_tables[t].heading \notin {CoachHeading, GlpHeading} =>
                    rp_tables[t].data = rp_queried[t].data
              /\ rp_tables[t].heading \in {CoachHeading, GlpHeading} =>
                    \A r \in 1..Len(rp_tables[t].data) : \A col \in ReasonColumns :
                        LET old == rp_queried[t].data[r]
                            new == rp_tables[t].data[r]
                            reason == SheetReasonFor(old, col[2])
                        IN IF ReadsNo(old, col[1]) /\ reason # <<>>
                           THEN /\ Get(new, col[1], <<>>) = reason
                                /\ TagOf(new, col[1]) = BlueCell
                           ELSE /\ HasKey(new, col[1]) = HasKey(old, col[1])
                                /\ Get(new, col[1], <<>>) = Get(old, col[1], <<>>)
                                /\ TagOf(new, col[1]) = TagOf(old, col[1])

\* C18 witness: Asha's "No" under 'User Onboarded' became the reason "R&D" and
\* her " no " under 'Meal Log (3 days)' became "Travelling", both tagged,
\* while her "Yes" under 'Weight Log (7 days)' and the 'Full Analytics' table
\* stayed as the queries gave them.
C18_Witness ==
    /\ rp_pc = "summary" /\ Len(rp_tables) = 2
    /\ rp_tables[1].heading = CoachHeading /\ Len(rp_tables[1].data) = 1
    /\ Get(rp_queried[1].data[1], "User Onboarded", <<>>) = Chars("No")
    /\ Get(rp_queried[1].data[1], "Meal Log (3 days)", <<>>) = Chars(" no ")
    /\ Get(rp_tables[1].data[1], "User Onboarded", <<>>) = Chars("R&D")
    /\ Get(rp_tables[1].data[1], "Meal Log (3 days)", <<>>) = Chars("Travelling")
    /\ TagOf(rp_tables[1].data[1], "User Onboarded") = BlueCell
    /\ TagOf(rp_tables[1].data[1], "Meal Log (3 days)") = BlueCell
    /\ Get(rp_tables[1].data[1], "Weight Log (7 days)", <<>>) = Chars("Yes")
    /\ TagOf(rp_tables[1].data[1], "Weight Log (7 days)") = ""
    /\ rp_tables[2] = TableEntry(FullHeading, FullRows)

\* The tables of the list that have rows.
NonEmptyTables == SelectSeq(rp_tables, LAMBDA t : t.data # <<>>)

\* The heading of every heading+table block of the document, in order: the
\* <h2> of the block, which leads_mail.py puts into the table itself.
BlockHeadings ==
    LET blocks == SelectSeq(rp_html, LAMBDA part : part.kind = "table")
    IN IF rp_script = "leads" THEN [b \in 1..Len(blocks) |-> blocks[b].title]
       ELSE [h \in 1..Len(SelectSeq(rp_html, LAMBDA part : part.kind = "heading")) |->
                SelectSeq(rp_html, LAMBDA part : part.kind = "heading")[h].text]

\* One heading+table block per table that has rows, in the order of the list,
\* behind the greeting and before the closing and the footer.
BlocksFollowTables ==
    ReportAssembled =>
        /\ SubSeq(rp_html, 1, 3) = <<ShellPart, HeaderPart, GreetingPart>>
        /\ SubSeq(rp_html, Len(rp_html) - 1, Len(rp_html)) = <<ClosingPart, FooterPart>>
        /\ BlockHeadings = [t \in 1..Len(NonEmptyTables) |-> NonEmptyTables[t].heading]
        /\ Len(SelectSeq(rp_html, LAMBDA part : part.kind = "table")) = Len(NonEmptyTables)
        /\ \A p \in 1..Len(rp_html) :
              rp_html[p].kind = "heading" => rp_html[p + 1].kind = "table"

IsActionsHeading(heading) == StartsWith(heading, Chars("Actions Required for "))

\* The "Actions Required" tables stand together, by consultant name, right
\* behind "Summary Comparison" and ahead of every detail table.
ActionTablesBehindSummary ==
    (rp_script = "analytics" /\ rp_pc \in {"assemble", "done"} /\ rp_result # "raised") =>
        \A t \in 1..Len(rp_tables) :
            IsActionsHeading(rp_tables[t].heading) =>
                /\ t > 1
                /\ \/ rp_tables[t - 1].heading = SummaryHeading
                   \/ /\ IsActionsHeading(rp_tables[t - 1].heading)
                      /\ StrLess(rp_tables[t - 1].heading, rp_tables[t].heading)
                /\ \A d \in 1..(t - 1) :
                      rp_tables[d].heading \notin {CoachHeading, GlpHeading, FullHeading}

\* C19: the document holds one heading+table block per table that has rows,
\* in the order of the list, behind the greeting and before the closing and
\* the footer; and in the analytics report the "Actions Required" tables come
\* right behind "Summary Comparison", by consultant name, ahead of the detail
\* tables.
C19_BlocksInOrderActionsBehindSummary == BlocksFollowTables /\ ActionTablesBehindSummary

(***************************************************************************)
(* Further properties of normalize_phone_number.                           *)
(***************************************************************************)
\* C27: the result of normalize_phone_number holds digits only, for every
\* input, and exactly ten of them for every input that holds at least ten
\* digits, with or without a country prefix, spaces, dashes or parentheses.
C27_TenDigitsFromTenOrMore ==
    ph_pc \in {"once", "twice"} =>
        /\ KeepDigits(ph_out) = ph_out
        /\ Len(KeepDigits(ph_in)) >= PhoneLen => Len(ph_out) = PhoneLen

(***************************************************************************)
(* Further properties of the lead sync job.                                *)
(***************************************************************************)
\* sync_leads has returned and the outer handler (lines 537-543) did not run.
ReturnedNormally ==
    /\ sl_pc = "returned"
    /\ \A e \in 1..Len(stats.errors) : stats.errors[e] # "Unexpected error during sync"

\* C28: in every run that returns without the outer handler, total_fetched is
\* the sum of active_customers_filtered, total_ingested, already_exists and
\* failed, no counter is negative and failed is at most the number of error
\* strings; each fetched record is counted in exactly one of the four: the
\* filtered ones are the records the filter dropped, the failed ones the
\* records the phone check rejected plus the POSTs that raised, the others the
\* POSTs that returned.
C28_CountersPartitionFetched ==
    ReturnedNormally =>
        /\ stats.total_fetched = stats.active_customers_filtered + stats.total_ingested
                                   + stats.already_exists + stats.failed
        /\ stats.total_fetched = Len(records)
        /\ stats.active_customers_filtered >= 0 /\ stats.total_ingested >= 0
        /\ stats.already_exists >= 0 /\ stats.failed >= 0
        /\ stats.failed <= Len(stats.errors)
        /\ records # <<>> =>
              /\ stats.active_customers_filtered = Len(records) - Len(filtered_records)
              /\ stats.failed = TransformFailures + CountPosts(PostRaised)
              /\ stats.total_ingested + stats.already_exists
                    = CountPosts(LAMBDA p : ~PostRaised(p))
              /\ Len(posts) = Len(leads_to_ingest)

\* C28 witness: of two fetched signups one was an active customer and the
\* POST of the other raised.
C28_Witness ==
    /\ ReturnedNormally
    /\ stats.total_fetched = 2 /\ stats.active_customers_filtered = 1
    /\ Len(posts) = 1 /\ PostRaised(posts[1])
    /\ stats.failed = 1 /\ Len(stats.errors) = 1

(***************************************************************************)
(* Further properties of compute_progress_status.                          *)
(***************************************************************************)
\* C29: with complete inputs a patient whose current weight is at or below the
\* goal weight is "On Track" however many days have passed since the reference
\* date, more than 90 included; and a reference date in the future counts as 0
\* days, so that any loss of zero or more is "On Track".
C29_AtGoalIsOnTrack ==
    (pg_pc = "done" /\ CompleteInputs) =>
        /\ pg_analytics.current.v <= pg_analytics.goal.v => pg_status = "On Track"
        /\ (pg_sheet.glp_dose.v < 0 /\ pg_analytics.current.v <= pg_analytics.start.v)
              => pg_status = "On Track"

(***************************************************************************)
(* Further properties of the report.                                       *)
(***************************************************************************)
\* The rows of a detail table whose status reads exactly "On Track".
OnTrackRows(heading) ==
    { r \in 1..Len(DataOf(rp_tables, heading, <<>>)) :
         Get(DataOf(rp_tables, heading, <<>>)[r], "OnTrack/OffTrack", <<>>) = Chars("On Track") }

\* The number a summary row shows for a metric under a column.
SummaryCount(metric, column) ==
    LET data == DataOf(rp_tables, SummaryHeading, <<>>)
        r == CHOOSE r \in 1..Len(data) : Get(data[r], "Metric", <<>>) = Chars(metric)
    IN NatValue(Get(data[r], column, <<>>))

\* Summary, Coach +App and GLP tables all have rows.
AllThreeTablesHaveRows ==
    /\ DataOf(rp_queried, SummaryHeading, <<>>) # <<>>
    /\ DataOf(rp_queried, CoachHeading, <<>>) # <<>>
    /\ DataOf(rp_queried, GlpHeading, <<>>) # <<>>

\* C24: update_summary_with_detailed_track_counts counts every status but
\* exactly "On Track" ("Data Incomplete" too) as off track: when the three
\* tables all have rows, the rows 'Num On Track Users' and 'Num Off Track
\* Users' hold, per column, the number of "On Track" rows of the detail table
\* and the number of its other rows, which sum to its length, and every other
\* summary row is as the query gave it; otherwise the summary is unchanged.
C24_TrackCountsPartitionDetailRows ==
    rp_pc = "actions" =>
        IF AllThreeTablesHaveRows
        THEN /\ \A pair \in { <<"Coach + App (vs Yesterday)", CoachHeading>>,
                              <<"GLP (vs Yesterday)", GlpHeading>> } :
                   /\ SummaryCount("Num On Track Users", pair[1])
                         = Cardinality(OnTrackRows(pair[2]))
                   /\ SummaryCount("Num On Track Users", pair[1])
                         + SummaryCount("Num Off Track Users", pair[1])
                         = Len(DataOf(rp_tables, pair[2], <<>>))
             /\ LET new == DataOf(rp_tables, SummaryHeading, <<>>)
                    old == DataOf(rp_queried, SummaryHeading, <<>>)
                IN /\ Len(new) = Len(old)
                   /\ \A r \in 1..Len(old) :
                         Get(old[r], "Metric", <<>>)
                            \notin {Chars("Num On Track Users"), Chars("Num Off Track Users")}
                         => new[r] = old[r]
        ELSE DataOf(rp_tables, SummaryHeading, <<>>) = DataOf(rp_queried, SummaryHeading, <<>>)

\* C24 witness: of two Coach +App rows one is "On Track" and one "Data
\* Incomplete", the GLP row is "On Track"; the summary shows 1 and 1 for
\* Coach +App, 1 and 0 for GLP.
C24_Witness ==
    /\ rp_pc = "actions" /\ AllThreeTablesHaveRows
    /\ Len(DataOf(rp_tables, CoachHeading, <<>>)) = 2
    /\ Len(DataOf(rp_tables, GlpHeading, <<>>)) = 1
    /\ Get(DataOf(rp_tables, CoachHeading, <<>>)[2], "OnTrack/OffTrack", <<>>)
          = Chars("Data Incomplete")
    /\ SummaryCount("Num On Track Users", "Coach + App (vs Yesterday)") = 1
    /\ SummaryCount("Num Off Track Users", "Coach + App (vs Yesterday)") = 1
    /\ SummaryCount("Num On Track Users", "GLP (vs Yesterday)") = 1
    /\ SummaryCount("Num Off Track Users", "GLP (vs Yesterday)") = 0

\* The action each of the three columns stands for.
ActionOfColumn ==
    { <<"User Onboarded", "User Not Onboarded">>,
      <<"Meal Log (3 days)", "Meal Logging">>,
      <<"Weight Log (7 days)", "Weight Logging">> }

\* The patient is listed under the action in the table of the consultant.
ListedUnder(patient_name, consultant_name, action) ==
    LET data == DataOf(rp_tables, Chars("Actions Required for ") \o consultant_name, <<>>)
    IN \E r \in 1..Len(data) :
          /\ Get(data[r], "Action", <<>>) = Chars(action)
          /\ Contains(Get(data[r], "Patients Pending", <<>>), patient_name)

\* C30: every row of the Coach +App and GLP query results whose 'User
\* Onboarded', 'Meal Log (3 days)' or 'Weight Log (7 days)' value, as the
\* query returned it, reads "No" is listed under the matching action in the
\* "Actions Required" table of the row's consultant, whether or not the sheet
\* holds a reason for the patient.
C30_EveryNoIsListed ==
    (rp_script = "analytics" /\ rp_pc = "assemble") =>
        \A heading \in {CoachHeading, GlpHeading} :
            LET data == DataOf(rp_queried, heading, <<>>)
            IN \A r \in 1..Len(data) : \A pair \in ActionOfColumn :
                   ReadsNo(data[r], pair[1]) =>
                       ListedUnder(Get(data[r], "Patient Name", <<>>),
                                   Get(data[r], "Consultant Name", Chars("Unknown Consultant")),
                                   pair[2])

(***************************************************************************)
(* Further properties of the mailers.                                      *)
(***************************************************************************)
\* C22: a run of leads_mail.send_report_email that collected an error string
\* attempts exactly one error notification, to the operator address, whose
\* body holds every error string collected; a run that collected none sends no
\* notification.  No run sends a notification before it ends with it.
C22_OneNotificationWithAllErrors ==
    ml_script = "leads" =>
        /\ Len(notifications) <= 1
        /\ \A n \in 1..Len(notifications) :
              /\ notifications[n].to = ERROR_NOTIFICATION_EMAIL
              /\ notifications[n].body = error_log
              /\ ml_pc = "done"
        /\ ml_pc = "done" => (Len(notifications) = 1 <=> error_log # <<>>)

\* C22 witness: the spreadsheet step failed, one recipient's send raised, and
\* the one notification lists the three error strings of the run.
C22_Witness ==
    /\ ml_script = "leads" /\ ml_pc = "done"
    /\ ~sheets_success /\ Len(failed_recipients) = 1
    /\ Len(error_log) = 3
    /\ notifications = <<[to |-> ERROR_NOTIFICATION_EMAIL, body |-> error_log]>>

\* A query of the run raised or returned a non-success result.
SomeQueryFailed == \E q \in 1..Len(ml_queries) : ~QuerySucceeded(ml_queries[q])

\* C25: in leads_mail a failed query (an exception or a non-success result)
\* stops the run: no row goes into the spreadsheet, no SMTP session for the
\* report is opened, so no address of RECIPIENTS is sent to, and the function
\* returns False; a failure of the spreadsheet step after successful queries
\* does not stop it: the run goes on to the report email, and when that is the
\* only error every recipient is sent to and the function returns True.
C25_OnlyQueryFailureStopsRun ==
    ml_script = "leads" =>
        /\ SomeQueryFailed =>
              /\ ml_pc \in {"query", "check", "done"}
              /\ sheet_appends = <<>>
              /\ smtp_log = <<>>
              /\ ml_pc = "done" => ml_result = FALSE
        /\ ~sheets_success =>
              /\ ~SomeQueryFailed
              /\ ml_pc \in {"html", "connect", "send", "quit", "done"}
              /\ (ml_pc = "done" /\ LoginSucceeded) => Attempted = RECIPIENTS
              /\ (ml_pc = "done" /\ Len(error_log) = 1) => ml_result = TRUE

\* C25 witness: the first query returned rows, the second raised, and the run
\* ended with False, nothing appended and no SMTP command.
C25_Witness ==
    /\ ml_script = "leads" /\ ml_pc = "done"
    /\ ml_queries = <<"rows", "raise">>
    /\ ml_result = FALSE
    /\ sheet_appends = <<>> /\ smtp_log = <<>>

\* The queries of the run that added a table: those that neither raised nor
\* returned a non-success result, in order.
TablesOfAnsweredQueries ==
    LET answered == SelectSeq([q \in 1..Len(ml_queries) |-> q],
                              LAMBDA q : ml_queries[q] \in {"empty", "rows"})
    IN [t \in 1..Len(answered) |->
           [heading |-> answered[t],
            rows |-> IF ml_queries[answered[t]] = "rows" THEN 1 ELSE 0]]

SomeQueryReturnedRows == \E q \in 1..Len(ml_queries) : ml_queries[q] = "rows"

\* The run is over and every address of RECIPIENTS was sent to, no send raising.
EveryRecipientSent ==
    /\ ml_pc = "done" /\ LoginSucceeded
    /\ Attempted = RECIPIENTS /\ failed_recipients = <<>>

OwnPosts(run) == SelectSeq(ov_posts, LAMBDA p : p.run = run)

\* How many POSTs of a run ended in the given way ("created", "exists", "error").
OwnPostsEnding(run, status) ==
    Cardinality({ i \in 1..Len(OwnPosts(run)) : ingest_lead(OwnPosts(run)[i].resp).status = status })

\* The records of a run that step 4 rejected, once step 4 has run.
OwnInvalid(run) ==
    IF ov_pc[run] \in {"step5", "returned"} THEN Len(ov_filtered[run]) - Len(ov_leads[run]) ELSE 0

\* The records of a run that step 3 dropped, once step 3 has run.
OwnFiltered(run) ==
    IF ov_pc[run] \in {"step4", "step5", "returned"}
    THEN Len(ov_records[run]) - Len(ov_filtered[run]) ELSE 0

\* C23: with two runs of sync_leads in flight at once, under every interleaving
\* of their steps, the statistics of each run count that run's own records and
\* nothing else: total_fetched the rows its own query returned, the filtered
\* ones the rows its own filter dropped, total_ingested and already_exists its
\* own POSTs answered with success and with 409, failed its own rejected
\* records and its own POSTs that raised.
C23_RunsCountOnlyTheirOwn ==
    \A run \in Runs :
        ov_pc[run] # "idle" =>
            /\ ov_stats[run].total_fetched = Len(ov_records[run])
            /\ ov_stats[run].active_customers_filtered = OwnFiltered(run)
            /\ ov_stats[run].total_ingested = OwnPostsEnding(run, "created")
            /\ ov_stats[run].already_exists = OwnPostsEnding(run, "exists")
            /\ ov_stats[run].failed = OwnInvalid(run) + OwnPostsEnding(run, "error")

\* Both runs have returned, their POSTs reached the webhook interleaved (one of
\* the second run between two of the first), and their statistics differ.
C23_Witness ==
    /\ \A run \in Runs : ov_pc[run] = "returned"
    /\ Len(ov_posts) >= 3
    /\ \E i, j, k \in 1..Len(ov_posts) :
          /\ i < j /\ j < k
          /\ ov_posts[i].run = "first" /\ ov_posts[j].run = "second" /\ ov_posts[k].run = "first"
    /\ ov_stats["first"].total_ingested # ov_stats["second"].total_ingested
    /\ ov_stats["second"].failed > 0

(***************************************************************************)
(* Properties of append_to_google_sheet.                                   *)
(***************************************************************************)
\* The calls so far that wrote to the sheet.
WritingCalls == SelectSeq(gs_calls, LAMBDA c : c.data # <<>> /\ c.result)

RECURSIVE AllDataRows(_)
AllDataRows(calls) ==
    IF calls = <<>> THEN <<>> ELSE SheetDataRows(Head(calls).data) \o AllDataRows(Tail(calls))

\* C21: a call with records writes their rows after the rows the sheet holds,
\* preceded by a header row (the keys of the first record) if and only if the
\* sheet held no row; a call that fails writes nothing; a call without records
\* writes nothing and returns True.  So a sheet that was empty at the start
\* holds, after any sequence of calls, nothing or the header of the first
\* writing call followed by the data rows of all writing calls in call order.
C21_HeaderOnceThenRowsInCallOrder ==
    /\ \A c \in 1..Len(gs_calls) :
          LET call == gs_calls[c]
          IN /\ call.data = <<>> => (call.result = TRUE /\ call.after = call.before)
             /\ (call.data # <<>> /\ ~call.result) => call.after = call.before
             /\ (call.data # <<>> /\ call.result) =>
                   call.after = call.before
                                   \o (IF call.before = <<>> THEN <<Headers(call.data)>> ELSE <<>>)
                                   \o SheetDataRows(call.data)
    /\ gs_sheet = IF WritingCalls = <<>> THEN <<>>
                  ELSE <<Headers(WritingCalls[1].data)>> \o AllDataRows(WritingCalls)

\* Two calls with different columns wrote to the sheet and a third call failed:
\* the sheet starts with the header of the first and holds the rows of both.
C21_Witness ==
    /\ Len(WritingCalls) >= 2
    /\ Headers(WritingCalls[1].data) # Headers(WritingCalls[2].data)
    /\ \E c \in 1..Len(gs_calls) : gs_calls[c].data # <<>> /\ ~gs_calls[c].result
    /\ Len(gs_sheet) >= 3
    /\ gs_sheet[1] = Headers(WritingCalls[1].data)

====
